---- MODULE Spec2Model ----
(***************************************************************************)
(* State-machine model of the HashCredit off-chain prover:                 *)
(*   - PayoutStore (watcher.py): the pending and submitted tables,         *)
(*   - AddressWatcher.scan_range / scan_block (watcher.py),                *)
(*   - SPVRelayer (relayer.py): run / run_once / scan_new_blocks /         *)
(*     process_pending / select_checkpoint / _submit_payout,               *)
(*   - ProofBuilder.build_proof (proof_builder.py): the height checks and  *)
(*     the shape of the proof it returns,                                  *)
(*   - EVMClient.send_transaction / submit_payout (evm.py).                *)
(* The Bitcoin chain and the on-chain contracts are the environment.       *)
(*                                                                         *)
(* Two specifications share the variables:                                 *)
(*   StoreSpec  any sequence of PayoutStore calls by any client,           *)
(*   Spec       one SPVRelayer process (with crashes and restarts) over    *)
(*              the store, a growing chain and the contracts.              *)
(***************************************************************************)
EXTENDS Integers, Sequences, FiniteSets, TLC

\* ------------------------------------------------------------------ bounds

\* Number of distinct (txid, output_index) keys; key i stands for one pair.
NumKeys == 2
\* Number of distinct clock readings datetime.now() / utcnow() can return.
MaxTime == 2
\* Number of EVM transactions the account sends (tx hashes are 1..MaxTx).
MaxTx == 2
\* Chain height when the model starts, and blocks mined afterwards.
StartTip == 150
MaxBlocks == 1
\* Largest checkpoint and target height library callers pass to build_proof.
MaxHeight == 8
\* Number of HMAC secrets (the server's and others'), the clock reading at
\* which claim tokens are issued, and the largest ttl_seconds configured.
NumSecrets == 2
IssueTime == 100
MaxTtl == 62
\* Largest number of transactions in a block.
MaxLeaves == 4
\* Number of blocks in the chains handed to scan_range.
ScanHeights == 2
\* Longest header chain handed to the local verifier.
MaxChain == 7
\* Number of txids the address API serves as last txid of a page.
NumCursors == 2
\* Most digits after the decimal point of a BTC amount.
MaxFracDigits == 30

\* ------------------------------------------------------- program constants

required_confirmations == 6
max_header_chain == 144
scan_batch_size == 10
MIN_CONFIRMATIONS == 6
\* esplora page size (relayer bitcoin.py)
PAGE_SIZE == 25
\* SATS_PER_BTC = Decimal("100000000"): its number of zeros; and the
\* precision of the decimal context in which the product is taken.
SATS_DIGITS == 8
DECIMAL_PREC == 28
\* Optional[int] = None of SPVRelayer._last_scanned_height
None == -1

\* ------------------------------------------------------------ value spaces

\* Outputs paying a watched address: 1..NumKeys, mined in recent blocks, and
\* output 0, mined scan_batch_size blocks below the starting tip.  The
\* clients of the store use the keys 1..NumKeys.
Keys == 0..NumKeys
StoreKeys == 1..NumKeys
Times == 1..MaxTime
TxHashes == 1..MaxTx
NoRow == [absent |-> TRUE]

\* Block in which the output of key k is mined (the chain is the environment).
HeightOf(k) == IF k = 0 THEN StartTip - scan_batch_size ELSE StartTip - 6 + k
BorrowerOf(k) == IF k % 2 = 1 THEN "0xB1" ELSE "0xB2"
AddressOf(k) == IF k % 2 = 1 THEN "tb1qa" ELSE "tb1qb"

\* PendingPayout as the watcher builds it for key k in its block.
PendingPayout(k, borrower, btc_address, amount_sats, block_height, first_seen) ==
  [txid_vout |-> k, borrower |-> borrower, btc_address |-> btc_address,
   amount_sats |-> amount_sats, block_height |-> block_height,
   block_hash |-> block_height, first_seen |-> first_seen]

\* The rows clients of the store pass to add_pending for key k.
InputRows(k) ==
  { PendingPayout(k, BorrowerOf(k), AddressOf(k), 100 * k, HeightOf(k), 1),
    PendingPayout(k, BorrowerOf(k + 1), AddressOf(k + 1), 100 * k + 1, HeightOf(k) + 1, MaxTime) }

\* What clients of the store call mark_submitted with: the transaction hash
\* they pass and the reading of utcnow() the call takes.  Two calls that
\* differ in both are enough to tell an overwritten row.
MarkInputs ==
  { [evm_tx_hash |-> 1, now |-> 1], [evm_tx_hash |-> MaxTx, now |-> MaxTime] }

\* Heights the checkpoint manager may hold as latestCheckpointHeight().
CheckpointHeights ==
  { StartTip - 149, StartTip - 6, StartTip - 4 }

\* --------------------------------------------------------- PayoutStore ops

\* Mutant of add_pending: INSERT OR REPLACE instead of INSERT OR IGNORE.
add_pending_upsert(p, payout) ==
  [pending |-> [p EXCEPT ![payout.txid_vout] = payout], ret |-> TRUE]

\* INSERT OR IGNORE / ON CONFLICT DO NOTHING into pending_payouts;
\* ret is result.rowcount > 0.
add_pending(p, payout) ==
  LET k == payout.txid_vout IN
  IF p[k] = NoRow
    THEN [pending |-> [p EXCEPT ![k] = payout], ret |-> TRUE]
    ELSE [pending |-> p, ret |-> FALSE]

is_submitted(s, k) == s[k] # NoRow

get_pending(p) == { k \in Keys : p[k] # NoRow }

SubmittedPayout(k, row, evm_tx_hash, now) ==
  [txid_vout |-> k, borrower |-> row.borrower, amount_sats |-> row.amount_sats,
   block_height |-> row.block_height, submitted_at |-> now,
   evm_tx_hash |-> evm_tx_hash]

\* Mutant of mark_submitted: without a pending row, the hash and the time of
\* an existing submitted row are updated.
mark_submitted_overwrite(p, s, k, evm_tx_hash, now) ==
  LET row == p[k] IN
  IF row = NoRow
    THEN [pending |-> p,
          submitted |-> IF s[k] = NoRow THEN s
                        ELSE [s EXCEPT ![k].evm_tx_hash = evm_tx_hash,
                                       ![k].submitted_at = now],
          raised |-> FALSE]
    ELSE IF s[k] # NoRow
      THEN [pending |-> p, submitted |-> s, raised |-> TRUE]
      ELSE [pending |-> [p EXCEPT ![k] = NoRow],
            submitted |-> [s EXCEPT ![k] = SubmittedPayout(k, row, evm_tx_hash, now)],
            raised |-> FALSE]

\* Mutant of mark_submitted: INSERT OR REPLACE into submitted_payouts.
mark_submitted_replace(p, s, k, evm_tx_hash, now) ==
  LET row == p[k] IN
  IF row = NoRow
    THEN [pending |-> p, submitted |-> s, raised |-> FALSE]
    ELSE [pending |-> [p EXCEPT ![k] = NoRow],
          submitted |-> [s EXCEPT ![k] = SubmittedPayout(k, row, evm_tx_hash, now)],
          raised |-> FALSE]

\* One transaction (engine.begin()): select the pending row; if there is one,
\* insert it into submitted_payouts and delete it from pending_payouts.  The
\* insert violates the primary key when the key already has a submitted row:
\* the exception rolls the transaction back and propagates.
mark_submitted(p, s, k, evm_tx_hash, now) ==
  LET row == p[k] IN
  IF row = NoRow
    THEN [pending |-> p, submitted |-> s, raised |-> FALSE]
    ELSE IF s[k] # NoRow
      THEN [pending |-> p, submitted |-> s, raised |-> TRUE]
      ELSE [pending |-> [p EXCEPT ![k] = NoRow],
            submitted |-> [s EXCEPT ![k] = SubmittedPayout(k, row, evm_tx_hash, now)],
            raised |-> FALSE]

remove_pending(p, k) == [p EXCEPT ![k] = NoRow]

\* ------------------------------------------------- AddressWatcher (pure)

\* Mutant of scan_block: no is_submitted check before add_pending.
scan_block_unchecked(p, s, height, now) ==
  [k \in Keys |->
     IF HeightOf(k) = height
       THEN add_pending(p, PendingPayout(k, BorrowerOf(k), AddressOf(k),
                                         100 * k, height, now)).pending[k]
       ELSE p[k]]

\* scan_block for the block at `height`: every output paying a watched address
\* that is not in submitted is passed to add_pending.
scan_block(p, s, height, now) ==
  [k \in Keys |->
     IF HeightOf(k) = height /\ ~is_submitted(s, k)
       THEN add_pending(p, PendingPayout(k, BorrowerOf(k), AddressOf(k),
                                         100 * k, height, now)).pending[k]
       ELSE p[k]]

\* scan_range: scan_block for start_height .. end_height in ascending order.
RECURSIVE scan_range(_, _, _, _, _)
scan_range(p, s, start_height, end_height, now) ==
  IF start_height > end_height
    THEN p
    ELSE scan_range(scan_block(p, s, start_height, now), s,
                    start_height + 1, end_height, now)

\* Mutant of scan_output: the payout is returned whatever add_pending said.
scan_output_returning_all(st, k, height, now) ==
  IF is_submitted(st.submitted, k) THEN st
  ELSE LET payout == PendingPayout(k, BorrowerOf(k), AddressOf(k), 100 * k, height, now)
           r == add_pending(st.pending, payout)
       IN [pending |-> r.pending, submitted |-> st.submitted,
           new_payouts |-> Append(st.new_payouts, payout)]

\* scan_block, body of the output loop for one output k of the block at
\* `height` that pays a watched address: skipped when in submitted, else
\* add_pending, and the payout joins new_payouts when add_pending returned
\* true.  st holds the store and the list built so far.
scan_output(st, k, height, now) ==
  IF is_submitted(st.submitted, k) THEN st
  ELSE LET payout == PendingPayout(k, BorrowerOf(k), AddressOf(k), 100 * k, height, now)
           r == add_pending(st.pending, payout)
       IN [pending |-> r.pending, submitted |-> st.submitted,
           new_payouts |-> IF r.ret THEN Append(st.new_payouts, payout)
                                    ELSE st.new_payouts]

\* scan_block returning its list: the outputs of the block (a sequence of
\* keys, in transaction and vout order) from position i on.
RECURSIVE scan_block_outputs(_, _, _, _, _)
scan_block_outputs(st, outputs, i, height, now) ==
  IF i > Len(outputs) THEN st
  ELSE scan_block_outputs(scan_output(st, outputs[i], height, now),
                          outputs, i + 1, height, now)

\* scan_range returning its list: all_payouts.extend(scan_block(height)) for
\* height = start_height .. end_height; chain[height] is the block's outputs.
RECURSIVE scan_range_payouts(_, _, _, _, _)
scan_range_payouts(st, chain, start_height, end_height, now) ==
  IF start_height > end_height THEN st
  ELSE scan_range_payouts(
         scan_block_outputs(st, chain[start_height], 1, start_height, now),
         chain, start_height + 1, end_height, now)

\* ---------------------------------------------------- SPVRelayer (pure)

Max(a, b) == IF a >= b THEN a ELSE b
Min(a, b) == IF a <= b THEN a ELSE b

\* Mutant of confirmations: the tip block is counted twice.
confirmations_off_by_one(height, payout) == height - payout.block_height + 2

\* process_pending: confirmations of a pending payout at the height read.
confirmations(height, payout) == height - payout.block_height + 1

\* select_checkpoint(target_height) given latestCheckpointHeight(); None when
\* no checkpoint suits.
select_checkpoint(target_height, latest_checkpoint) ==
  LET chain_length == target_height - latest_checkpoint IN
  IF latest_checkpoint = 0 THEN None
  ELSE IF chain_length <= 0 THEN None
  ELSE IF chain_length > max_header_chain THEN None
  ELSE latest_checkpoint

\* ---------------------------------------------------- ProofBuilder (pure)

\* Mutant of build_proof: tx_block_index counted from the checkpoint block.
build_proof_index_from_checkpoint(k, checkpoint_height, target_height, borrower, tip_height) ==
  LET tip_h == IF tip_height = None
                 THEN target_height + MIN_CONFIRMATIONS - 1
                 ELSE tip_height
  IN
  IF target_height <= checkpoint_height THEN [ok |-> FALSE, error |-> "HeightOrdering"]
  ELSE IF tip_h < target_height THEN [ok |-> FALSE, error |-> "HeightOrdering"]
  ELSE IF tip_h - target_height + 1 < MIN_CONFIRMATIONS
    THEN [ok |-> FALSE, error |-> "InsufficientConfirmations"]
  ELSE [ok |-> TRUE,
        txid_vout |-> k,
        checkpoint_height |-> checkpoint_height,
        headers |-> [i \in 1..(tip_h - checkpoint_height) |-> checkpoint_height + i],
        tx_block_index |-> target_height - checkpoint_height,
        borrower |-> borrower]

\* build_proof: the height checks, then the proof.  A header is modelled by
\* the height of its block; headers run from checkpoint_height + 1 to the tip.
\* tip_height = None stands for the omitted argument.
build_proof(k, checkpoint_height, target_height, borrower, tip_height) ==
  LET tip_h == IF tip_height = None
                 THEN target_height + MIN_CONFIRMATIONS - 1
                 ELSE tip_height
  IN
  IF target_height <= checkpoint_height THEN [ok |-> FALSE, error |-> "HeightOrdering"]
  ELSE IF tip_h < target_height THEN [ok |-> FALSE, error |-> "HeightOrdering"]
  ELSE IF tip_h - target_height + 1 < MIN_CONFIRMATIONS
    THEN [ok |-> FALSE, error |-> "InsufficientConfirmations"]
  ELSE [ok |-> TRUE,
        txid_vout |-> k,
        checkpoint_height |-> checkpoint_height,
        headers |-> [i \in 1..(tip_h - checkpoint_height) |-> checkpoint_height + i],
        tx_block_index |-> target_height - checkpoint_height - 1,
        borrower |-> borrower]

\* The chain RPC requests of build_proof, in the order of its statements:
\* get_raw_transaction, get_headers_in_range, get_block_hash, get_block_txids.
ChainRequests ==
  <<"getrawtransaction", "get_headers_in_range", "getblockhash", "get_block_txids">>

\* Mutant of rpc_requests: the transaction is fetched before the heights are
\* validated.
rpc_requests_fetch_first(heights_ok, rpc_fails) ==
  IF ~heights_ok THEN SubSeq(ChainRequests, 1, 1)
  ELSE IF rpc_fails = 0 THEN ChainRequests
  ELSE SubSeq(ChainRequests, 1, rpc_fails)

\* The requests one build_proof call issues: none when the height checks
\* raise, else all of them, or those up to the rpc_fails-th when that one
\* raises (rpc_fails = 0: none raises).
rpc_requests(heights_ok, rpc_fails) ==
  IF ~heights_ok THEN <<>>
  ELSE IF rpc_fails = 0 THEN ChainRequests
  ELSE SubSeq(ChainRequests, 1, rpc_fails)

\* ------------------------------------------------ HashCreditManager contract

\* Mutant of submitPayout: no replay guard.
submitPayout_no_replay_guard(paid, prf, verifies) ==
  IF Len(prf.headers) <= max_header_chain /\ verifies THEN 1 ELSE 0

\* submitPayout: the replay guard, the header-chain limit, and every other
\* check of the on-chain verifier (`verifies`).  Status 1 is success.
submitPayout(paid, prf, verifies) ==
  IF prf.txid_vout \notin paid
     /\ Len(prf.headers) <= max_header_chain
     /\ verifies
    THEN 1 ELSE 0

\* --------------------------------------------------------------- variables

VARIABLES
  pending,            \* pending_payouts table: key -> row or NoRow
  submitted,          \* submitted_payouts table: key -> row or NoRow
  storeResult,        \* how the store call of the last step ended: "ok",
                      \* "noop" (mark_submitted found no pending row), "raised"
  addCalls,           \* per key: add_pending calls since the key's pending
                      \* row was last removed (0, 1, more) ...
  addTrue,            \* ... and those of them that returned true
  firstRow,           \* ... and the row passed by the first of them
  tip,                \* Bitcoin chain height (getblockcount)
  latestCheckpoint,   \* CheckpointManager.latestCheckpointHeight()
  processed,          \* HashCreditManager replay guard: keys already paid
  receipts,           \* per key: the statuses of the mined submitPayout
                      \* transactions for it, in the order they were mined
  running,            \* SPVRelayer._running
  pc,                 \* where the relayer task is
  last_scanned_height,\* SPVRelayer._last_scanned_height
  current_height,     \* process_pending: the tip read at its start
  plist,              \* process_pending: the list get_pending() returned
  idx,                \* process_pending: position in plist
  checkpoint,         \* the checkpoint selected for plist[idx]
  proof,              \* the proof built for plist[idx], or NoRow
  fn,                 \* library function or API handler being called, or "idle"
  args,               \* the arguments of that call
  result,             \* what the call returned or raised
  processed_payouts,  \* HashCreditRelayer: processed_payouts table of its
                      \* PayoutDatabase, key -> status or "none" (no row)
  cycle,              \* HashCreditRelayer: where its process is and the
                      \* payouts of the running cycle still to be looked at
  submissions         \* per key: what each evm.submit_payout call made for it
                      \* returned (success or not), in call order

storeVars == <<pending, submitted>>
histVars == <<storeResult, addCalls, addTrue, firstRow>>
envVars == <<tip, latestCheckpoint, processed, receipts>>
relayerVars == <<running, pc, last_scanned_height, current_height, plist, idx,
                 checkpoint, proof>>
callVars == <<fn, args, result>>
hcVars == <<processed_payouts, cycle, submissions>>
vars == <<pending, submitted, storeResult, addCalls, addTrue, firstRow,
          tip, latestCheckpoint, processed, receipts,
          running, pc, last_scanned_height, current_height, plist, idx,
          checkpoint, proof, fn, args, result,
          processed_payouts, cycle, submissions>>

\* State after PayoutStore.__init__ on a fresh database and
\* SPVRelayer.__init__ (relayer.py 59-69).
Init ==
  /\ pending = [k \in Keys |-> NoRow]
  /\ submitted = [k \in Keys |-> NoRow]
  /\ storeResult = "ok"
  /\ addCalls = [k \in Keys |-> 0]
  /\ addTrue = [k \in Keys |-> 0]
  /\ firstRow = [k \in Keys |-> NoRow]
  /\ tip = StartTip
  /\ latestCheckpoint = 0
  /\ processed = {}
  /\ receipts = [k \in Keys |-> <<>>]
  /\ running = FALSE
  /\ pc = "init"
  /\ last_scanned_height = None
  /\ current_height = 0
  /\ plist = <<>>
  /\ idx = 0
  /\ checkpoint = 0
  /\ proof = NoRow
  /\ fn = "idle"
  /\ args = <<>>
  /\ result = <<>>
  /\ processed_payouts = [k \in StoreKeys |-> "none"]
  /\ cycle = [pc |-> "stopped", payouts |-> <<>>]
  /\ submissions = [k \in StoreKeys |-> <<>>]

\* ------------------------------------------------- store calls by a client

\* Counting 0, 1, "more than one".
Count(n, hit) == IF hit /\ n < 2 THEN n + 1 ELSE n

\* Bookkeeping of one add_pending call on key k.
NoteAdd(k, payout, ret) ==
  /\ addCalls' = [addCalls EXCEPT ![k] = Count(@, TRUE)]
  /\ addTrue' = [addTrue EXCEPT ![k] = Count(@, ret)]
  /\ firstRow' = [firstRow EXCEPT ![k] = IF @ = NoRow THEN payout ELSE @]

\* The window of add_pending calls on k ends when k's pending row is removed.
NoteRemoval(k, removed) ==
  /\ addCalls' = IF removed THEN [addCalls EXCEPT ![k] = 0] ELSE addCalls
  /\ addTrue' = IF removed THEN [addTrue EXCEPT ![k] = 0] ELSE addTrue
  /\ firstRow' = IF removed THEN [firstRow EXCEPT ![k] = NoRow] ELSE firstRow

AddPendingCall(k, payout) ==
  LET r == add_pending(pending, payout) IN
  /\ pending' = r.pending
  /\ storeResult' = "ok"
  /\ NoteAdd(k, payout, r.ret)
  /\ UNCHANGED callVars
  /\ UNCHANGED <<submitted, envVars, relayerVars>>
  /\ UNCHANGED hcVars

MarkSubmittedCall(k, evm_tx_hash, now) ==
  LET r == mark_submitted(pending, submitted, k, evm_tx_hash, now) IN
  /\ pending' = r.pending
  /\ submitted' = r.submitted
  /\ storeResult' = IF r.raised THEN "raised"
                    ELSE IF pending[k] = NoRow THEN "noop" ELSE "ok"
  /\ NoteRemoval(k, r.pending[k] # pending[k])
  /\ UNCHANGED callVars
  /\ UNCHANGED <<envVars, relayerVars>>
  /\ UNCHANGED hcVars

RemovePendingCall(k) ==
  /\ pending' = remove_pending(pending, k)
  /\ storeResult' = "ok"
  /\ NoteRemoval(k, pending[k] # NoRow)
  /\ UNCHANGED callVars
  /\ UNCHANGED <<submitted, envVars, relayerVars>>
  /\ UNCHANGED hcVars

StoreNext ==
  \/ \E k \in StoreKeys : \E payout \in InputRows(k) : AddPendingCall(k, payout)
  \/ \E k \in StoreKeys, c \in MarkInputs : MarkSubmittedCall(k, c.evm_tx_hash, c.now)
  \/ \E k \in StoreKeys : RemovePendingCall(k)

StoreSpec == Init /\ [][StoreNext]_vars

\* Chains of ScanHeights blocks that hold every output 1..NumKeys once: an
\* order of the outputs, cut into the blocks.
ScanRows == 1..ScanHeights
OutputOrders ==
  { q \in [1..NumKeys -> StoreKeys] : \A i, j \in 1..NumKeys : i # j => q[i] # q[j] }
RECURSIVE Cuts(_, _)
Cuts(q, n) ==
  IF n = 1 THEN { <<q>> }
  ELSE UNION { { <<SubSeq(q, 1, c)>> \o rest : rest \in Cuts(SubSeq(q, c + 1, Len(q)), n - 1) } :
               c \in 0..Len(q) }
Chains == UNION { Cuts(q, ScanHeights) : q \in OutputOrders }

\* AddressWatcher.scan_range(start_height, end_height) called on the store,
\* on a chain with the given blocks; datetime.now() reads 1.
ScanRangeCall(chain, start_height, end_height) ==
  LET r == scan_range_payouts([pending |-> pending, submitted |-> submitted,
                               new_payouts |-> <<>>],
                              chain, start_height, end_height, 1)
  IN
  /\ fn = "idle"
  /\ fn' = "scan_range"
  /\ args' = [chain |-> chain, start_height |-> start_height,
              end_height |-> end_height, pending |-> pending]
  /\ result' = r.new_payouts
  /\ pending' = r.pending
  /\ storeResult' = "ok"
  /\ UNCHANGED <<submitted, addCalls, addTrue, firstRow, envVars, relayerVars>>
  /\ UNCHANGED hcVars

\* The relayer's other store calls between two scans: mark_submitted and
\* remove_pending on a key, and the end of the scan_range call.
ScanReturn ==
  /\ fn # "idle"
  /\ fn' = "idle"
  /\ args' = <<>>
  /\ result' = <<>>
  /\ UNCHANGED <<storeVars, histVars, envVars, relayerVars>>
  /\ UNCHANGED hcVars

WatcherNext ==
  \/ \E chain \in Chains, start_height \in ScanRows, end_height \in ScanRows :
        ScanRangeCall(chain, start_height, end_height)
  \/ ScanReturn
  \/ \E k \in StoreKeys : fn = "idle" /\ MarkSubmittedCall(k, 1, 1)
  \/ \E k \in StoreKeys : fn = "idle" /\ RemovePendingCall(k)

WatcherSpec == Init /\ [][WatcherNext]_vars

\* ------------------------------------------------------------ environment

\* A block is mined.
NewBlock ==
  /\ tip < StartTip + MaxBlocks
  /\ tip' = tip + 1
  /\ UNCHANGED callVars
  /\ UNCHANGED <<storeVars, histVars, latestCheckpoint, processed, receipts, relayerVars>>
  /\ UNCHANGED hcVars

\* The operator registers a checkpoint (CheckpointManager.setCheckpoint).
SetCheckpoint(height) ==
  /\ height # latestCheckpoint
  /\ latestCheckpoint' = height
  /\ UNCHANGED callVars
  /\ UNCHANGED <<storeVars, histVars, tip, processed, receipts, relayerVars>>
  /\ UNCHANGED hcVars

\* -------------------------------------------------------------- SPVRelayer

payout == plist[idx]

\* datetime.now() / utcnow() as the relayer process reads it.  The relayer
\* never reads a timestamp back, so its readings are not told apart here;
\* StoreSpec is where rows with different timestamps meet.
clock == CHOOSE t \in Times : TRUE

\* run(): self._running = True and the first test of the loop, up to the
\* first await of run_once.
Run ==
  /\ pc = "init"
  /\ running' = TRUE
  /\ pc' = "scan"
  /\ UNCHANGED callVars
  /\ UNCHANGED <<storeVars, histVars, envVars, last_scanned_height,
                 current_height, plist, idx, checkpoint, proof>>
  /\ UNCHANGED hcVars

\* Mutant of scan_new_blocks: the range starts at the position itself.
scan_new_blocks_from_position(fail_at) ==
  LET last == IF last_scanned_height = None
                THEN Max(tip - scan_batch_size, 0)
                ELSE last_scanned_height
      start == last
      end == Min(start + scan_batch_size, tip)
  IN
  /\ pc = "scan"
  /\ storeResult' = "ok"
  /\ IF tip <= last
       THEN /\ fail_at = None
            /\ last_scanned_height' = last
            /\ pending' = pending
            /\ pc' = "process"
       ELSE IF fail_at = None
         THEN /\ pending' = scan_range(pending, submitted, start, end, clock)
              /\ last_scanned_height' = end
              /\ pc' = "process"
         ELSE /\ fail_at \in start..end
              /\ pending' = scan_range(pending, submitted, start, fail_at - 1, clock)
              /\ last_scanned_height' = last
              /\ pc' = "sleep"
  /\ UNCHANGED callVars
  /\ UNCHANGED <<submitted, addCalls, addTrue, firstRow, envVars, running,
                 current_height, plist, idx, checkpoint, proof>>
  /\ UNCHANGED hcVars

\* Mutant of scan_new_blocks: the position is moved to end before scan_range
\* is awaited, so a scan that fails part-way still advances it.
scan_new_blocks_advancing(fail_at) ==
  LET last == IF last_scanned_height = None
                THEN Max(tip - scan_batch_size, 0)
                ELSE last_scanned_height
      start == last + 1
      end == Min(start + scan_batch_size - 1, tip)
  IN
  /\ pc = "scan"
  /\ storeResult' = "ok"
  /\ IF tip <= last
       THEN /\ fail_at = None
            /\ last_scanned_height' = last
            /\ pending' = pending
            /\ pc' = "process"
       ELSE IF fail_at = None
         THEN /\ pending' = scan_range(pending, submitted, start, end, clock)
              /\ last_scanned_height' = end
              /\ pc' = "process"
         ELSE /\ fail_at \in start..end
              /\ pending' = scan_range(pending, submitted, start, fail_at - 1, clock)
              /\ last_scanned_height' = end
              /\ pc' = "sleep"
  /\ UNCHANGED callVars
  /\ UNCHANGED <<submitted, addCalls, addTrue, firstRow, envVars, running,
                 current_height, plist, idx, checkpoint, proof>>
  /\ UNCHANGED hcVars

\* Mutant of scan_new_blocks: run_once catches the exception of the scan
\* itself and goes on to process_pending.
scan_new_blocks_swallowing(fail_at) ==
  LET last == IF last_scanned_height = None
                THEN Max(tip - scan_batch_size, 0)
                ELSE last_scanned_height
      start == last + 1
      end == Min(start + scan_batch_size - 1, tip)
  IN
  /\ pc = "scan"
  /\ storeResult' = "ok"
  /\ IF tip <= last
       THEN /\ fail_at = None
            /\ last_scanned_height' = last
            /\ pending' = pending
            /\ pc' = "process"
       ELSE IF fail_at = None
         THEN /\ pending' = scan_range(pending, submitted, start, end, clock)
              /\ last_scanned_height' = end
              /\ pc' = "process"
         ELSE /\ fail_at \in start..end
              /\ pending' = scan_range(pending, submitted, start, fail_at - 1, clock)
              /\ last_scanned_height' = last
              /\ pc' = "process"
  /\ UNCHANGED callVars
  /\ UNCHANGED <<submitted, addCalls, addTrue, firstRow, envVars, running,
                 current_height, plist, idx, checkpoint, proof>>
  /\ UNCHANGED hcVars

\* scan_new_blocks(), called first by run_once().  A chain RPC may raise: at
\* get_block_count, or in scan_block of some height fail_at of the range
\* (fail_at = None: no failure).  The exception ends run_once.
scan_new_blocks(fail_at) ==
  LET last == IF last_scanned_height = None
                THEN Max(tip - scan_batch_size, 0)
                ELSE last_scanned_height
      start == last + 1
      end == Min(start + scan_batch_size - 1, tip)
  IN
  /\ pc = "scan"
  /\ storeResult' = "ok"
  /\ IF tip <= last
       THEN /\ fail_at = None
            /\ last_scanned_height' = last
            /\ pending' = pending
            /\ pc' = "process"
       ELSE IF fail_at = None
         THEN /\ pending' = scan_range(pending, submitted, start, end, clock)
              /\ last_scanned_height' = end
              /\ pc' = "process"
         ELSE /\ fail_at \in start..end
              /\ pending' = scan_range(pending, submitted, start, fail_at - 1, clock)
              /\ last_scanned_height' = last
              /\ pc' = "sleep"
  /\ UNCHANGED callVars
  /\ UNCHANGED <<submitted, addCalls, addTrue, firstRow, envVars, running,
                 current_height, plist, idx, checkpoint, proof>>
  /\ UNCHANGED hcVars

\* Mutant of ScanTipFails: run() has no try/except around run_once, so the
\* exception ends the loop.
ScanTipFails_uncaught ==
  /\ pc = "scan"
  /\ pc' = "exited"
  /\ UNCHANGED callVars
  /\ UNCHANGED <<storeVars, histVars, envVars, running, last_scanned_height,
                 current_height, plist, idx, checkpoint, proof>>
  /\ UNCHANGED hcVars

\* scan_new_blocks(): get_block_count raises.
ScanTipFails ==
  /\ pc = "scan"
  /\ pc' = "sleep"
  /\ UNCHANGED callVars
  /\ UNCHANGED <<storeVars, histVars, envVars, running, last_scanned_height,
                 current_height, plist, idx, checkpoint, proof>>
  /\ UNCHANGED hcVars

\* The lists a SELECT without ORDER BY may return for the rows of p.
Orderings(p) ==
  LET ks == get_pending(p) IN
  { q \in [1..Cardinality(ks) -> ks] : \A i, j \in DOMAIN q : i # j => q[i] # q[j] }

\* process_pending(): read the height and the pending rows.
ProcessStart(order) ==
  /\ pc = "process"
  /\ current_height' = tip
  /\ plist' = [i \in DOMAIN order |-> pending[order[i]]]
  /\ idx' = 1
  /\ pc' = "payout"
  /\ UNCHANGED callVars
  /\ UNCHANGED <<storeVars, histVars, envVars, running, last_scanned_height,
                 checkpoint, proof>>
  /\ UNCHANGED hcVars

\* process_pending(): get_block_count raises.
ProcessTipFails ==
  /\ pc = "process"
  /\ pc' = "sleep"
  /\ UNCHANGED callVars
  /\ UNCHANGED <<storeVars, histVars, envVars, running, last_scanned_height,
                 current_height, plist, idx, checkpoint, proof>>
  /\ UNCHANGED hcVars

\* process_pending(): top of the for loop, and the confirmation test.
CheckConfirmations ==
  /\ pc = "payout"
  /\ IF idx > Len(plist)
       THEN /\ pc' = "sleep"
            /\ idx' = 0 /\ plist' = <<>> /\ current_height' = 0
       ELSE /\ IF confirmations(current_height, payout) < required_confirmations
                 THEN pc' = "payout" /\ idx' = idx + 1
                 ELSE pc' = "select" /\ idx' = idx
            /\ UNCHANGED <<plist, current_height>>
  /\ UNCHANGED callVars
  /\ UNCHANGED <<storeVars, histVars, envVars, running, last_scanned_height,
                 checkpoint, proof>>
  /\ UNCHANGED hcVars

\* process_pending(): await self.select_checkpoint(payout.block_height).
SelectCheckpoint ==
  LET r == select_checkpoint(payout.block_height, latestCheckpoint) IN
  /\ pc = "select"
  /\ IF r = None
       THEN pc' = "payout" /\ idx' = idx + 1 /\ checkpoint' = checkpoint
       ELSE pc' = "build" /\ idx' = idx /\ checkpoint' = r
  /\ UNCHANGED callVars
  /\ UNCHANGED <<storeVars, histVars, envVars, running, last_scanned_height,
                 current_height, plist, proof>>
  /\ UNCHANGED hcVars

\* latestCheckpointHeight() raises: select_checkpoint is called outside the
\* try block, so the exception ends process_pending and run_once.
SelectCheckpointFails ==
  /\ pc = "select"
  /\ pc' = "sleep"
  /\ idx' = 0 /\ plist' = <<>> /\ current_height' = 0
  /\ UNCHANGED callVars
  /\ UNCHANGED <<storeVars, histVars, envVars, running, last_scanned_height,
                 checkpoint, proof>>
  /\ UNCHANGED hcVars

\* _submit_payout(): build_proof without tip_height.  A chain RPC may raise
\* (rpc_fails), and does when a header above the chain tip is asked for; an
\* exception is caught by process_pending, which goes on with the next row.
\* The headers are fetched one RPC call per height and build_proof does not
\* compare them: when the node reorganises in between, they do not link
\* (linked = FALSE).
BuildProof(rpc_fails, linked) ==
  LET r == build_proof(payout.txid_vout, checkpoint, payout.block_height,
                       payout.borrower, None)
      raised == ~r.ok \/ rpc_fails \/ r.headers[Len(r.headers)] > tip
  IN
  /\ pc = "build"
  /\ IF raised
       THEN pc' = "payout" /\ idx' = idx + 1 /\ proof' = NoRow /\ checkpoint' = 0
       ELSE /\ pc' = "submit" /\ idx' = idx /\ checkpoint' = checkpoint
            /\ proof' = r @@ [linked |-> linked]
  /\ UNCHANGED callVars
  /\ UNCHANGED <<storeVars, histVars, envVars, running, last_scanned_height,
                 current_height, plist>>
  /\ UNCHANGED hcVars

\* Transactions mined so far, and the hash of the n-th one for key k.
RECURSIVE SumLen(_, _)
SumLen(f, ks) ==
  IF ks = {} THEN 0
  ELSE LET k == CHOOSE x \in ks : TRUE IN Len(f[k]) + SumLen(f, ks \ {k})
TxCount == SumLen(receipts, Keys)
TxHash(k, n) == (n - 1) * NumKeys + k
StatusOf(k, evm_tx_hash) == receipts[k][((evm_tx_hash - k) \div NumKeys) + 1]

\* EVMClient.send_transaction: the transaction is mined with the status the
\* contract gives it, and the receipt is returned whatever its status.
send_transaction(status) == [raised |-> FALSE, status |-> status]

\* _submit_payout(): evm_client.submit_payout, then mark_submitted with the
\* receipt's transaction hash.  store_fails: the store is unavailable.
SubmitPayout(verifies, store_fails) ==
  LET status == submitPayout(processed, proof, verifies /\ proof.linked)
      receipt == send_transaction(status)
      k == payout.txid_vout
      evm_tx_hash == TxHash(k, Len(receipts[k]) + 1)
      r == mark_submitted(pending, submitted, k, evm_tx_hash, clock)
      marked == ~receipt.raised /\ ~store_fails
  IN
  /\ pc = "submit"
  /\ TxCount < MaxTx
  /\ receipts' = [receipts EXCEPT ![k] = Append(@, status)]
  /\ processed' = IF status = 1 THEN processed \cup {k} ELSE processed
  /\ pending' = IF marked THEN r.pending ELSE pending
  /\ submitted' = IF marked THEN r.submitted ELSE submitted
  /\ storeResult' = IF ~receipt.raised /\ (store_fails \/ r.raised) THEN "raised" ELSE "ok"
  /\ pc' = "payout"
  /\ idx' = idx + 1
  /\ proof' = NoRow
  /\ checkpoint' = 0
  /\ UNCHANGED callVars
  /\ UNCHANGED <<addCalls, addTrue, firstRow, tip, latestCheckpoint, running,
                 last_scanned_height, current_height, plist>>
  /\ UNCHANGED hcVars

\* evm_client.submit_payout raises: the transaction was never sent (mined =
\* FALSE), or it was sent and waiting for its receipt failed (mined = TRUE).
SubmitPayoutFails(mined, verifies) ==
  LET status == submitPayout(processed, proof, verifies /\ proof.linked)
      k == payout.txid_vout
  IN
  /\ pc = "submit"
  /\ mined => TxCount < MaxTx
  /\ receipts' = IF mined THEN [receipts EXCEPT ![k] = Append(@, status)]
                          ELSE receipts
  /\ processed' = IF mined /\ status = 1 THEN processed \cup {k} ELSE processed
  /\ pc' = "payout"
  /\ idx' = idx + 1
  /\ proof' = NoRow
  /\ checkpoint' = 0
  /\ UNCHANGED callVars
  /\ UNCHANGED <<storeVars, histVars, tip, latestCheckpoint, running,
                 last_scanned_height, current_height, plist>>
  /\ UNCHANGED hcVars

\* Mutant of Sleep: `while True` instead of `while self._running`.
Sleep_ignoring_flag ==
  /\ pc = "sleep"
  /\ pc' = "scan"
  /\ UNCHANGED callVars
  /\ UNCHANGED <<storeVars, histVars, envVars, running, last_scanned_height,
                 current_height, plist, idx, checkpoint, proof>>
  /\ UNCHANGED hcVars

\* await asyncio.sleep(poll_interval_seconds) returns, and the loop tests
\* self._running.
Sleep ==
  /\ pc = "sleep"
  /\ pc' = IF running THEN "scan" ELSE "exited"
  /\ UNCHANGED callVars
  /\ UNCHANGED <<storeVars, histVars, envVars, running, last_scanned_height,
                 current_height, plist, idx, checkpoint, proof>>
  /\ UNCHANGED hcVars

\* stop()
Stop ==
  /\ running
  /\ running' = FALSE
  /\ UNCHANGED callVars
  /\ UNCHANGED <<storeVars, histVars, envVars, pc, last_scanned_height,
                 current_height, plist, idx, checkpoint, proof>>
  /\ UNCHANGED hcVars

\* The process dies and a new one is constructed over the same database.
Restart ==
  /\ pc # "init"
  /\ running' = FALSE
  /\ pc' = "init"
  /\ last_scanned_height' = None
  /\ current_height' = 0
  /\ plist' = <<>>
  /\ idx' = 0
  /\ checkpoint' = 0
  /\ proof' = NoRow
  /\ UNCHANGED callVars
  /\ UNCHANGED <<storeVars, histVars, envVars>>
  /\ UNCHANGED hcVars

Next ==
  \/ NewBlock
  \/ \E height \in CheckpointHeights : SetCheckpoint(height)
  \/ Run
  \/ \E fail_at \in {None} \cup (StartTip - scan_batch_size)..(StartTip + MaxBlocks) :
        scan_new_blocks(fail_at)
  \/ ScanTipFails
  \/ \E order \in Orderings(pending) : ProcessStart(order)
  \/ ProcessTipFails
  \/ CheckConfirmations
  \/ SelectCheckpoint
  \/ SelectCheckpointFails
  \/ \E rpc_fails \in BOOLEAN, linked \in BOOLEAN : BuildProof(rpc_fails, linked)
  \/ \E verifies \in BOOLEAN, store_fails \in BOOLEAN :
        SubmitPayout(verifies, store_fails)
  \/ \E mined \in BOOLEAN, verifies \in BOOLEAN : SubmitPayoutFails(mined, verifies)
  \/ Sleep
  \/ Stop
  \/ Restart

Spec == Init /\ [][Next]_vars

\* run() while nobody calls stop() and the process stays up: the steps of
\* the relayer task and of its environment.
LiveNext ==
  \/ NewBlock
  \/ \E height \in CheckpointHeights : SetCheckpoint(height)
  \/ Run
  \/ \E fail_at \in {None} \cup (StartTip - scan_batch_size)..(StartTip + MaxBlocks) :
        scan_new_blocks(fail_at)
  \/ ScanTipFails
  \/ \E order \in Orderings(pending) : ProcessStart(order)
  \/ ProcessTipFails
  \/ CheckConfirmations
  \/ SelectCheckpoint
  \/ SelectCheckpointFails
  \/ \E rpc_fails \in BOOLEAN, linked \in BOOLEAN : BuildProof(rpc_fails, linked)
  \/ \E verifies \in BOOLEAN, store_fails \in BOOLEAN :
        SubmitPayout(verifies, store_fails)
  \/ \E mined \in BOOLEAN, verifies \in BOOLEAN : SubmitPayoutFails(mined, verifies)
  \/ Sleep

\* The event loop resumes the relayer task after every await (weak fairness
\* of the steps that call nothing outside the process), and a chain, EVM or
\* store call that is tried again and again does not raise every time (strong
\* fairness of the outcome in which the call returns).
Fairness ==
  /\ WF_vars(Run)
  /\ WF_vars(Sleep)
  /\ WF_vars(CheckConfirmations)
  /\ SF_vars(scan_new_blocks(None))
  /\ SF_vars(\E order \in Orderings(pending) : ProcessStart(order))
  /\ SF_vars(SelectCheckpoint)
  /\ SF_vars(BuildProof(FALSE, TRUE))
  /\ SF_vars(SubmitPayout(TRUE, FALSE))

LiveSpec == Init /\ [][LiveNext]_vars /\ Fairness

\* One step of the task that executes run(), whatever the outcome of the call
\* it makes.
TaskStep ==
  \/ Run
  \/ \E fail_at \in {None} \cup (StartTip - scan_batch_size)..(StartTip + MaxBlocks) :
        scan_new_blocks(fail_at)
  \/ ScanTipFails
  \/ \E order \in Orderings(pending) : ProcessStart(order)
  \/ ProcessTipFails
  \/ CheckConfirmations
  \/ SelectCheckpoint
  \/ SelectCheckpointFails
  \/ \E rpc_fails \in BOOLEAN, linked \in BOOLEAN : BuildProof(rpc_fails, linked)
  \/ \E verifies \in BOOLEAN, store_fails \in BOOLEAN :
        SubmitPayout(verifies, store_fails)
  \/ \E mined \in BOOLEAN, verifies \in BOOLEAN : SubmitPayoutFails(mined, verifies)
  \/ Sleep

\* run() in a process that stays up, with stop(), while no block is mined:
\* the task, and an operator who registers the checkpoint below the recent
\* outputs.
RunNext ==
  \/ TaskStep
  \/ Stop
  \/ SetCheckpoint(StartTip - 6)

\* Every await of the task returns or raises (the RPC clients have timeouts,
\* asyncio.sleep ends), and the event loop then resumes the task.
RunSpec == Init /\ [][RunNext]_vars /\ WF_vars(TaskStep)

\* ------------------------------------------------------ claim tokens (pure)

\* A byte string is a sequence of 0..255; a base64 string is the sequence of
\* the 6-bit values of its characters.

\* _b64url_encode: urlsafe_b64encode with the "=" padding stripped.
RECURSIVE b64url_encode(_)
b64url_encode(raw) ==
  IF Len(raw) = 0 THEN <<>>
  ELSE IF Len(raw) = 1
    THEN << raw[1] \div 4, (raw[1] % 4) * 16 >>
  ELSE IF Len(raw) = 2
    THEN << raw[1] \div 4, (raw[1] % 4) * 16 + raw[2] \div 16, (raw[2] % 16) * 4 >>
  ELSE << raw[1] \div 4, (raw[1] % 4) * 16 + raw[2] \div 16,
          (raw[2] % 16) * 4 + raw[3] \div 64, raw[3] % 64 >>
       \o b64url_encode(SubSeq(raw, 4, Len(raw)))

\* urlsafe_b64decode of a string padded to a multiple of four characters; a
\* last group of one character is an error, the spare bits of a last group
\* of two or three are dropped.
RECURSIVE b64decode_groups(_)
b64decode_groups(str) ==
  IF Len(str) <= 1 THEN <<>>
  ELSE IF Len(str) = 2
    THEN << str[1] * 4 + str[2] \div 16 >>
  ELSE IF Len(str) = 3
    THEN << str[1] * 4 + str[2] \div 16, (str[2] % 16) * 16 + str[3] \div 4 >>
  ELSE << str[1] * 4 + str[2] \div 16, (str[2] % 16) * 16 + str[3] \div 4,
          (str[3] % 4) * 64 + str[4] >>
       \o b64decode_groups(SubSeq(str, 5, Len(str)))

\* _b64url_decode
b64url_decode(str) ==
  IF Len(str) % 4 = 1
    THEN [ok |-> FALSE, raw |-> <<>>]
    ELSE [ok |-> TRUE, raw |-> b64decode_groups(str)]

\* ClaimPayload; every field is one byte of the JSON body.
ClaimPayload(version, borrower, btc_address, nonce, chain_id, issued_at, expires_at) ==
  [version |-> version, borrower |-> borrower, btc_address |-> btc_address,
   nonce |-> nonce, chain_id |-> chain_id, issued_at |-> issued_at,
   expires_at |-> expires_at]

\* ClaimPayload.to_json_bytes: the values in the order of the sorted keys
\* borrower, btc_address, chain_id, exp, iat, nonce, v.
to_json_bytes(payload) ==
  << payload.borrower, payload.btc_address, payload.chain_id, payload.expires_at,
     payload.issued_at, payload.nonce, payload.version >>

\* ClaimPayload.from_json_bytes; a body that is not such an object raises.
from_json_bytes(raw) ==
  IF Len(raw) # 7
    THEN [ok |-> FALSE]
    ELSE [ok |-> TRUE,
          payload |-> ClaimPayload(raw[7], raw[1], raw[2], raw[6], raw[3], raw[5], raw[4])]

\* hmac.new(secret, body, sha256).digest(): an ideal MAC, a different digest
\* for every different (secret, body).
hmac_sha256(secret, body) == <<secret>> \o body

\* The token "body.mac"; a string without a "." is the token NoDot.
NoDot == [nodot |-> TRUE]
Token(body_b64, mac_b64) == [body_b64 |-> body_b64, mac_b64 |-> mac_b64]

\* Mutant of issue_claim_token: ttl_seconds is used as it is.
issue_claim_token_any_ttl(secret, borrower, btc_address, chain_id, ttl_seconds, now, nonce) ==
  LET payload == ClaimPayload(1, borrower, btc_address, nonce, chain_id, now,
                              now + ttl_seconds)
      body == to_json_bytes(payload)
      mac == hmac_sha256(secret, body)
  IN [token |-> Token(b64url_encode(body), b64url_encode(mac)), payload |-> payload]

\* issue_claim_token at clock reading now, with the nonce secrets gives it.
issue_claim_token(secret, borrower, btc_address, chain_id, ttl_seconds, now, nonce) ==
  LET payload == ClaimPayload(1, borrower, btc_address, nonce, chain_id, now,
                              now + Max(60, ttl_seconds))
      body == to_json_bytes(payload)
      mac == hmac_sha256(secret, body)
  IN [token |-> Token(b64url_encode(body), b64url_encode(mac)), payload |-> payload]

\* Mutant of verify_claim_token: a token is expired at now = exp already.
verify_claim_token_strict_expiry(secret, token, now) ==
  IF token = NoDot THEN [ok |-> FALSE, error |-> "Invalid token format", parsed |-> FALSE]
  ELSE
  LET body == b64url_decode(token.body_b64)
      mac == b64url_decode(token.mac_b64)
  IN
  IF ~body.ok \/ ~mac.ok
    THEN [ok |-> FALSE, error |-> "binascii.Error", parsed |-> FALSE]
  ELSE IF mac.raw # hmac_sha256(secret, body.raw)
    THEN [ok |-> FALSE, error |-> "Invalid token signature", parsed |-> FALSE]
  ELSE
  LET r == from_json_bytes(body.raw) IN
  IF ~r.ok THEN [ok |-> FALSE, error |-> "json", parsed |-> FALSE]
  ELSE IF r.payload.expires_at <= now
    THEN [ok |-> FALSE, error |-> "Token expired", parsed |-> TRUE]
  ELSE IF r.payload.issued_at > now + 60
    THEN [ok |-> FALSE, error |-> "Token issued in the future", parsed |-> TRUE]
  ELSE [ok |-> TRUE, payload |-> r.payload, parsed |-> TRUE]

\* Mutant of verify_claim_token: the payload is parsed and its time window
\* checked before the HMAC is compared.
verify_claim_token_parse_first(secret, token, now) ==
  IF token = NoDot THEN [ok |-> FALSE, error |-> "Invalid token format", parsed |-> FALSE]
  ELSE
  LET body == b64url_decode(token.body_b64)
      mac == b64url_decode(token.mac_b64)
  IN
  IF ~body.ok \/ ~mac.ok
    THEN [ok |-> FALSE, error |-> "binascii.Error", parsed |-> FALSE]
  ELSE
  LET r == from_json_bytes(body.raw) IN
  IF ~r.ok THEN [ok |-> FALSE, error |-> "json", parsed |-> FALSE]
  ELSE IF r.payload.expires_at < now
    THEN [ok |-> FALSE, error |-> "Token expired", parsed |-> TRUE]
  ELSE IF r.payload.issued_at > now + 60
    THEN [ok |-> FALSE, error |-> "Token issued in the future", parsed |-> TRUE]
  ELSE IF mac.raw # hmac_sha256(secret, body.raw)
    THEN [ok |-> FALSE, error |-> "Invalid token signature", parsed |-> TRUE]
  ELSE [ok |-> TRUE, payload |-> r.payload, parsed |-> TRUE]

\* verify_claim_token; error names the ValueError raised.
verify_claim_token(secret, token, now) ==
  IF token = NoDot THEN [ok |-> FALSE, error |-> "Invalid token format", parsed |-> FALSE]
  ELSE
  LET body == b64url_decode(token.body_b64)
      mac == b64url_decode(token.mac_b64)
  IN
  IF ~body.ok \/ ~mac.ok
    THEN [ok |-> FALSE, error |-> "binascii.Error", parsed |-> FALSE]
  ELSE IF mac.raw # hmac_sha256(secret, body.raw)
    THEN [ok |-> FALSE, error |-> "Invalid token signature", parsed |-> FALSE]
  ELSE
  LET r == from_json_bytes(body.raw) IN
  IF ~r.ok THEN [ok |-> FALSE, error |-> "json", parsed |-> FALSE]
  ELSE IF r.payload.expires_at < now
    THEN [ok |-> FALSE, error |-> "Token expired", parsed |-> TRUE]
  ELSE IF r.payload.issued_at > now + 60
    THEN [ok |-> FALSE, error |-> "Token issued in the future", parsed |-> TRUE]
  ELSE [ok |-> TRUE, payload |-> r.payload, parsed |-> TRUE]

\* ------------------------------------------------- BIP-137 signatures (pure)

\* The part of the header table shared by the families: the recovery made
\* for a header of family base..base + 3 on an address of type addr_type.
Recovery(header, base, compressed) ==
  [recid |-> header - base, compressed |-> compressed]

\* Mutant of verify_bip137_signature: headers 35..38 are taken as compressed
\* keys of a p2wpkh address.
verify_bip137_signature_p2sh_segwit(decoded, sig_len, header, recovered) ==
  LET family ==
        IF 27 <= header /\ header <= 30 THEN [t |-> "p2pkh", r |-> Recovery(header, 27, FALSE)]
        ELSE IF 31 <= header /\ header <= 34 THEN [t |-> "p2pkh", r |-> Recovery(header, 31, TRUE)]
        ELSE IF 35 <= header /\ header <= 38 THEN [t |-> "p2wpkh", r |-> Recovery(header, 35, TRUE)]
        ELSE IF 39 <= header /\ header <= 42 THEN [t |-> "p2wpkh", r |-> Recovery(header, 39, TRUE)]
        ELSE [t |-> "unsupported", r |-> NoRow]
  IN
  IF decoded = NoRow THEN [ret |-> FALSE, raised |-> FALSE, recovery |-> NoRow]
  ELSE IF sig_len # 65 THEN [ret |-> FALSE, raised |-> FALSE, recovery |-> NoRow]
  ELSE IF header < 27 \/ header > 42 THEN [ret |-> FALSE, raised |-> FALSE, recovery |-> NoRow]
  ELSE IF family.t # decoded.addr_type
    THEN [ret |-> FALSE, raised |-> FALSE, recovery |-> NoRow]
  ELSE IF recovered = None
    THEN [ret |-> FALSE, raised |-> TRUE, recovery |-> family.r]
  ELSE [ret |-> recovered = decoded.expected_hash, raised |-> FALSE, recovery |-> family.r]

\* verify_bip137_signature.  decoded is what decode_btc_address returned
\* (NoRow for None, or the pubkey hash and the address type); the signature is its
\* length and its first byte; recovered is the hash160 of the public key that
\* coincurve recovers (None: recovery raises).  recovery records the recid and
\* the key format with which recovery was entered, NoRow if it was not.
verify_bip137_signature(decoded, sig_len, header, recovered) ==
  LET family ==
        IF 27 <= header /\ header <= 30 THEN [t |-> "p2pkh", r |-> Recovery(header, 27, FALSE)]
        ELSE IF 31 <= header /\ header <= 34 THEN [t |-> "p2pkh", r |-> Recovery(header, 31, TRUE)]
        ELSE IF 39 <= header /\ header <= 42 THEN [t |-> "p2wpkh", r |-> Recovery(header, 39, TRUE)]
        ELSE [t |-> "unsupported", r |-> NoRow]
  IN
  IF decoded = NoRow THEN [ret |-> FALSE, raised |-> FALSE, recovery |-> NoRow]
  ELSE IF sig_len # 65 THEN [ret |-> FALSE, raised |-> FALSE, recovery |-> NoRow]
  ELSE IF header < 27 \/ header > 42 THEN [ret |-> FALSE, raised |-> FALSE, recovery |-> NoRow]
  ELSE IF family.t # decoded.addr_type
    THEN [ret |-> FALSE, raised |-> FALSE, recovery |-> NoRow]
  ELSE IF recovered = None
    THEN [ret |-> FALSE, raised |-> TRUE, recovery |-> family.r]
  ELSE [ret |-> recovered = decoded.expected_hash, raised |-> FALSE, recovery |-> family.r]

\* ------------------------------------------------- /claim/complete (pure)

\* Mutant of lower: the spelling is kept.
lower_exact(address) == address

\* An EVM address is a number: 2n is the lower-case spelling of address n and
\* 2n + 1 its checksummed spelling.  str.lower():
lower(address) == 2 * (address \div 2)

\* build_claim_message: one line per field of the payload except the version.
build_claim_message(payload) ==
  << payload.borrower, payload.btc_address, payload.nonce, payload.chain_id,
     payload.issued_at, payload.expires_at >>

\* decode_btc_address on the addresses of the model: 21 is a p2pkh address,
\* 22 a p2wpkh address, anything else does not decode (NoRow for None).
decode_btc_address(btc_address) ==
  IF btc_address = 21 THEN [expected_hash |-> 1, addr_type |-> "p2pkh"]
  ELSE IF btc_address = 22 THEN [expected_hash |-> 2, addr_type |-> "p2wpkh"]
  ELSE NoRow

\* Web3.keccak(text=btc_address): an ideal hash of the address.
keccak(btc_address) == 1000 + btc_address

\* A signature that does not parse.
BadSignature == [invalid |-> TRUE]

\* Account.recover_message(encode_defunct(text=message), signature): the
\* checksummed signer if the signature was made over this message, some
\* unrelated address if it was made over another one; raises if the
\* signature does not parse.
recover_message(message, signature) ==
  IF signature = BadSignature THEN [raised |-> TRUE, address |-> None]
  ELSE IF signature.message = message
    THEN [raised |-> FALSE, address |-> signature.signer]
    ELSE [raised |-> FALSE, address |-> 99]

\* hash160 of the key coincurve recovers from a BIP-137 signature for this
\* message: the signing key's if the signature was made over this message,
\* an unrelated key's otherwise.
recovered_hash(message, signature) ==
  IF signature.message = message THEN signature.key_hash ELSE 9

\* What /claim/complete answers with: the HTTP status, the fields of
\* ClaimCompleteResponse, the transactions sent so far (txs), and how far the
\* handler went: pc is the await it is suspended at ("done": it has
\* answered), parsed / evm_checked / btc_checked tell whether the payload
\* was parsed and each signature verification was entered.
Response ==
  [pc |-> "done", http |-> 200, success |-> FALSE, error |-> "",
   parsed |-> FALSE, evm_checked |-> FALSE, btc_checked |-> FALSE,
   borrower |-> None, btc_address |-> None, pubkey_hash |-> None,
   btc_payout_key_hash |-> None, tx_set_pubkey_hash |-> None,
   tx_register_borrower |-> None, dry_run |-> FALSE, txs |-> <<>>,
   borrower_status |-> None]

\* Mutant of after_checks: dry_run is not looked at.
after_checks_live(settings, request, verified) ==
  IF ~settings.private_key THEN [verified EXCEPT !.http = 503]
  ELSE IF ~settings.btc_spv_verifier THEN [verified EXCEPT !.http = 503]
  ELSE IF ~settings.hash_credit_manager THEN [verified EXCEPT !.http = 503]
  ELSE [verified EXCEPT !.pc = "set_borrower_pubkey_hash"]

\* Mutant of after_checks: the server remembers that the request before this
\* one sent a transaction for the token and refuses to act on it again.
after_checks_once(settings, request, verified) ==
  IF fn = "claim_complete" /\ result.txs # <<>>
    THEN [verified EXCEPT !.error = "Claim token already used"]
  ELSE IF request.dry_run THEN [verified EXCEPT !.success = TRUE]
  ELSE IF ~settings.private_key THEN [verified EXCEPT !.http = 503]
  ELSE IF ~settings.btc_spv_verifier THEN [verified EXCEPT !.http = 503]
  ELSE IF ~settings.hash_credit_manager THEN [verified EXCEPT !.http = 503]
  ELSE [verified EXCEPT !.pc = "set_borrower_pubkey_hash"]

\* The end of claim_complete's synchronous part, once the token and both
\* signatures are verified: the dry-run answer, else the configuration
\* needed to send, else on to the first transaction.
after_checks(settings, request, verified) ==
  IF request.dry_run THEN [verified EXCEPT !.success = TRUE]
  ELSE IF ~settings.private_key THEN [verified EXCEPT !.http = 503]
  ELSE IF ~settings.btc_spv_verifier THEN [verified EXCEPT !.http = 503]
  ELSE IF ~settings.hash_credit_manager THEN [verified EXCEPT !.http = 503]
  ELSE [verified EXCEPT !.pc = "set_borrower_pubkey_hash"]

\* claim_complete up to its first await: the guards, the token, the two
\* signatures, the dry-run answer and the configuration needed to send.
claim_complete(settings, request, now) ==
  LET base == [Response EXCEPT !.dry_run = request.dry_run]
      token == verify_claim_token(settings.claim_secret, request.claim_token, now)
  IN
  IF ~settings.claim_mode THEN [base EXCEPT !.error = "Claim flow is disabled"]
  ELSE IF settings.claim_secret = None
    THEN [base EXCEPT !.error = "CLAIM_SECRET not configured"]
  ELSE IF ~settings.api_key_ok THEN [base EXCEPT !.http = 401]
  ELSE IF ~settings.evm_client THEN [base EXCEPT !.http = 503]
  ELSE IF ~token.ok
    THEN [base EXCEPT !.error = "Invalid claim token: " \o token.error,
                      !.parsed = token.parsed]
  ELSE
  LET payload == token.payload
      message == build_claim_message(payload)
      known == [base EXCEPT !.parsed = TRUE, !.borrower = payload.borrower,
                            !.btc_address = payload.btc_address,
                            !.evm_checked = TRUE]
      recovered == recover_message(message, request.evm_signature)
  IN
  IF recovered.raised THEN [known EXCEPT !.error = "Invalid EVM signature"]
  ELSE IF lower(recovered.address) # lower(payload.borrower)
    THEN [known EXCEPT !.error = "EVM signature does not match borrower address"]
  ELSE
  LET decoded == decode_btc_address(payload.btc_address)
      sig == request.btc_signature
      btc == IF sig = BadSignature
               THEN [ret |-> FALSE, raised |-> TRUE, recovery |-> NoRow]
               ELSE verify_bip137_signature(decoded, sig.sig_len, sig.header,
                                            recovered_hash(message, sig))
      checked == [known EXCEPT !.btc_checked = TRUE]
  IN
  IF btc.raised THEN [checked EXCEPT !.error = "BTC signature verification error"]
  ELSE IF ~btc.ret
    THEN [checked EXCEPT !.error = "BTC signature does not match btc_address"]
  ELSE IF decoded = NoRow
    THEN [checked EXCEPT !.error = "Unsupported BTC address type"]
  ELSE
  LET verified == [checked EXCEPT !.pubkey_hash = decoded.expected_hash,
                                  !.btc_payout_key_hash = keccak(payload.btc_address)]
  IN
  after_checks(settings, request, verified)

\* EVMClient.get_borrower_status(borrower) of the API: the class has no such
\* method, so the attribute lookup raises whatever status the manager holds.
get_borrower_status(borrower_status) ==
  [raised |-> TRUE, status |-> borrower_status]

\* ------------------------------------------------------ Merkle trees (pure)

\* Mutant of generate_merkle_proof: the node itself is appended instead of
\* its sibling.
RECURSIVE merkle_proof_loop_self(_, _, _)
merkle_proof_loop_self(hashes, index, siblings) ==
  IF Len(hashes) <= 1 THEN [ok |-> TRUE, proof |-> siblings, root |-> hashes[1]]
  ELSE LET level == IF Len(hashes) % 2 = 1 THEN Append(hashes, hashes[Len(hashes)])
                                           ELSE hashes
       IN merkle_proof_loop_self(
            [i \in 1..(Len(level) \div 2) |-> <<level[2 * i - 1], level[2 * i]>>],
            index \div 2, Append(siblings, level[index + 1]))

generate_merkle_proof_self(txids, tx_index) ==
  IF txids = <<>> THEN [ok |-> FALSE]
  ELSE IF tx_index < 0 \/ tx_index >= Len(txids) THEN [ok |-> FALSE]
  ELSE merkle_proof_loop_self(txids, tx_index, <<>>)

\* A txid is <<v>>; sha256d(a + b) of two 32-byte hashes is the pair of them:
\* an ideal hash, different for every different pair and never a txid.
sha256d(a, b) == <<a, b>>

\* "If odd number, duplicate last hash".
DuplicateLast(hashes) ==
  IF Len(hashes) % 2 = 1 THEN Append(hashes, hashes[Len(hashes)]) ELSE hashes

\* "Hash pairs": the next level of a level of even length.
HashPairs(hashes) ==
  [i \in 1..(Len(hashes) \div 2) |-> sha256d(hashes[2 * i - 1], hashes[2 * i])]

\* index ^ 1
FlipLastBit(index) == IF index % 2 = 0 THEN index + 1 ELSE index - 1

\* compute_merkle_root (prover); the empty list raises.
RECURSIVE merkle_root_loop(_)
merkle_root_loop(hashes) ==
  IF Len(hashes) <= 1 THEN hashes[1]
  ELSE merkle_root_loop(HashPairs(DuplicateLast(hashes)))

compute_merkle_root(txids) ==
  IF txids = <<>> THEN [ok |-> FALSE] ELSE [ok |-> TRUE, root |-> merkle_root_loop(txids)]

\* The while loop of generate_merkle_proof (prover); indices are 0-based as
\* in the code, sequences 1-based.
RECURSIVE merkle_proof_loop(_, _, _)
merkle_proof_loop(hashes, index, siblings) ==
  IF Len(hashes) <= 1 THEN [ok |-> TRUE, proof |-> siblings, root |-> hashes[1]]
  ELSE LET level == DuplicateLast(hashes) IN
       merkle_proof_loop(HashPairs(level), index \div 2,
                         Append(siblings, level[FlipLastBit(index) + 1]))

\* generate_merkle_proof (prover)
generate_merkle_proof(txids, tx_index) ==
  IF txids = <<>> THEN [ok |-> FALSE]
  ELSE IF tx_index < 0 \/ tx_index >= Len(txids) THEN [ok |-> FALSE]
  ELSE merkle_proof_loop(txids, tx_index, <<>>)

\* The for loop of verify_merkle_proof (prover: index & 1, API: index % 2).
RECURSIVE merkle_verify_loop(_, _, _)
merkle_verify_loop(current, index, siblings) ==
  IF siblings = <<>> THEN current
  ELSE merkle_verify_loop(IF index % 2 = 0 THEN sha256d(current, Head(siblings))
                                           ELSE sha256d(Head(siblings), current),
                          index \div 2, Tail(siblings))

\* verify_merkle_proof (prover)
verify_merkle_proof(txid, merkle_root, siblings, tx_index) ==
  merkle_verify_loop(txid, tx_index, siblings) = merkle_root

\* The while loop of generate_merkle_proof (API): the sibling is appended
\* only if its index is inside the level.
RECURSIVE api_merkle_proof_loop(_, _, _)
api_merkle_proof_loop(current_level, index, siblings) ==
  IF Len(current_level) <= 1
    THEN [ok |-> TRUE, proof |-> siblings, root |-> current_level[1]]
  ELSE LET level == DuplicateLast(current_level)
           sibling_index == FlipLastBit(index)
       IN api_merkle_proof_loop(HashPairs(level), index \div 2,
                                IF sibling_index < Len(level)
                                  THEN Append(siblings, level[sibling_index + 1])
                                  ELSE siblings)

\* generate_merkle_proof (API): tx_index is not checked against the list.
api_generate_merkle_proof(txids, tx_index) ==
  IF txids = <<>> THEN [ok |-> FALSE]
  ELSE api_merkle_proof_loop(txids, tx_index, <<>>)

\* verify_merkle_proof (API)
api_verify_merkle_proof(txid, merkle_root, siblings, tx_index) ==
  merkle_verify_loop(txid, tx_index, siblings) = merkle_root


\* ----------------------------------------------------- header chains (pure)

\* A serialized header is the sequence of its six fields (each a run of the
\* 80 bytes): version, prev_block_hash, merkle_root, timestamp, bits, nonce.
HeaderFields == <<"version", "prev_block_hash", "merkle_root", "timestamp", "bits", "nonce">>

\* BlockHeader.from_bytes
from_bytes(data) ==
  [version |-> data[1], prev_block_hash |-> data[2], merkle_root |-> data[3],
   timestamp |-> data[4], bits |-> data[5], nonce |-> data[6]]

\* BlockHeader.to_bytes
to_bytes(header) ==
  << header.version, header.prev_block_hash, header.merkle_root,
     header.timestamp, header.bits, header.nonce >>

\* BlockHeader.block_hash: sha256d of the serialization, an ideal hash (a
\* different hash for every different header).
block_hash(header) == << to_bytes(header) >>

\* sha256d(raw_tx): the txid, a leaf of the Merkle tree.
txid_of(raw_tx) == << raw_tx >>

\* Mutant of header_chain_loop: the hash carried to the next header is the
\* one the header names as its parent's.
RECURSIVE header_chain_loop_trusting(_, _, _)
header_chain_loop_trusting(headers, i, prev_hash) ==
  IF i >= Len(headers) THEN None
  ELSE LET header == from_bytes(headers[i + 1]) IN
       IF i > 0 /\ header.prev_block_hash # prev_hash THEN i
       ELSE header_chain_loop_trusting(headers, i + 1,
              IF i + 1 < Len(headers)
                THEN from_bytes(headers[i + 2]).prev_block_hash ELSE <<>>)

\* "Parse and verify each header": the for loop over enumerate(headers),
\* from index i on with the previous header's hash; the index at which the
\* chain is found broken, or None.
RECURSIVE header_chain_loop(_, _, _)
header_chain_loop(headers, i, prev_hash) ==
  IF i >= Len(headers) THEN None
  ELSE LET header == from_bytes(headers[i + 1]) IN
       IF i > 0 /\ header.prev_block_hash # prev_hash THEN i
       ELSE header_chain_loop(headers, i + 1, block_hash(header))

\* ProofBuilder.verify_proof_locally; broken_at is the index at which the
\* header loop returned, stage the check that decided.
verify_proof_locally(prf) ==
  IF prf.headers = <<>> THEN [ret |-> FALSE, stage |-> "headers", broken_at |-> None]
  ELSE IF prf.tx_block_index >= Len(prf.headers)
    THEN [ret |-> FALSE, stage |-> "tx_block_index", broken_at |-> None]
  ELSE IF Len(prf.headers) - prf.tx_block_index < MIN_CONFIRMATIONS
    THEN [ret |-> FALSE, stage |-> "confirmations", broken_at |-> None]
  ELSE
  LET broken_at == header_chain_loop(prf.headers, 0, <<>>) IN
  IF broken_at # None THEN [ret |-> FALSE, stage |-> "linkage", broken_at |-> broken_at]
  ELSE
  LET tx_block_header == from_bytes(prf.headers[prf.tx_block_index + 1]) IN
  IF ~verify_merkle_proof(txid_of(prf.raw_tx), tx_block_header.merkle_root,
                          prf.merkle_proof, prf.tx_index)
    THEN [ret |-> FALSE, stage |-> "merkle", broken_at |-> None]
    ELSE [ret |-> TRUE, stage |-> "done", broken_at |-> None]

\* The verify-local command of the CLI: the header loop, then the Merkle
\* proof against the last header.
verify_local(prf) ==
  LET broken_at == header_chain_loop(prf.headers, 0, <<>>) IN
  IF broken_at # None THEN [ret |-> FALSE, stage |-> "linkage", broken_at |-> broken_at]
  ELSE
  LET target_header == from_bytes(prf.headers[Len(prf.headers)]) IN
  IF ~verify_merkle_proof(txid_of(prf.raw_tx), target_header.merkle_root,
                          prf.merkle_proof, prf.tx_index)
    THEN [ret |-> FALSE, stage |-> "merkle", broken_at |-> None]
    ELSE [ret |-> TRUE, stage |-> "done", broken_at |-> None]

\* ------------------------------------------------ BitcoinApiClient (pure)

\* A page is a list of transactions, here of their txids; None is the txid of
\* an entry without one (page[-1].get("txid") is falsy).  HttpError stands
\* for a response on which raise_for_status raises.
HttpError == <<"error">>

\* Mutant of loop_iteration: a short page does not end the loop.
loop_iteration_past_short_page(upstream, loc) ==
  IF loc.cursor_txid # None /\ loc.cursor_txid \in loc.seen_cursors
    THEN [loc EXCEPT !.pc = "done"]
  ELSE
  LET page == upstream[loc.cursor_txid]
      fetched == [loc EXCEPT !.urls = Append(@, loc.cursor_txid),
                             !.seen_cursors = IF loc.cursor_txid = None THEN @
                                              ELSE @ \cup {loc.cursor_txid}]
  IN
  IF page = HttpError THEN [fetched EXCEPT !.pc = "raised"]
  ELSE IF page = <<>> THEN [fetched EXCEPT !.pc = "done"]
  ELSE
  LET extended == [fetched EXCEPT !.txs = @ \o page] IN
  IF page[Len(page)] = None THEN [extended EXCEPT !.pc = "done"]
  ELSE [extended EXCEPT !.cursor_txid = page[Len(page)]]

\* The locals of get_address_txs before its loop; urls lists the requests
\* made (None: the base URL, else /chain/<cursor>).
get_address_txs_locals ==
  [pc |-> "loop", txs |-> <<>>, cursor_txid |-> None, seen_cursors |-> {}, urls |-> <<>>]

\* One iteration of the while loop of get_address_txs.
loop_iteration(upstream, loc) ==
  IF loc.cursor_txid # None /\ loc.cursor_txid \in loc.seen_cursors
    THEN [loc EXCEPT !.pc = "done"]
  ELSE
  LET page == upstream[loc.cursor_txid]
      fetched == [loc EXCEPT !.urls = Append(@, loc.cursor_txid),
                             !.seen_cursors = IF loc.cursor_txid = None THEN @
                                              ELSE @ \cup {loc.cursor_txid}]
  IN
  IF page = HttpError THEN [fetched EXCEPT !.pc = "raised"]
  ELSE IF page = <<>> THEN [fetched EXCEPT !.pc = "done"]
  ELSE
  LET extended == [fetched EXCEPT !.txs = @ \o page] IN
  IF Len(page) < PAGE_SIZE THEN [extended EXCEPT !.pc = "done"]
  ELSE IF page[Len(page)] = None THEN [extended EXCEPT !.pc = "done"]
  ELSE [extended EXCEPT !.cursor_txid = page[Len(page)]]

\* -------------------------------------------------- proof encoding (pure)

\* What the chain holds for the output of key k: the raw transaction, its
\* place in its block and the Merkle proof of that place.
ChainTx(k) == [raw_tx |-> k, merkle_proof |-> <<>>, tx_index |-> 0, output_index |-> 0]

\* SpvProof.encode_for_contract (prover): the ABI encoding of one tuple, here
\* the tuple itself.
encode_for_contract(prf) ==
  LET tx == ChainTx(prf.txid_vout) IN
  << prf.checkpoint_height, prf.headers, prf.tx_block_index, tx.raw_tx,
     tx.merkle_proof, tx.tx_index, tx.output_index, prf.borrower >>

\* ProofBuilder.build_proof (API): no tip and no validation of the heights;
\* the headers are those of checkpoint_height + 1 .. target_height, and an
\* empty range raises at headers[-1].
api_build_proof(k, checkpoint_height, target_height, borrower) ==
  IF target_height <= checkpoint_height THEN [ok |-> FALSE, error |-> "IndexError"]
  ELSE [ok |-> TRUE,
        txid_vout |-> k,
        checkpoint_height |-> checkpoint_height,
        headers |-> [i \in 1..(target_height - checkpoint_height) |-> checkpoint_height + i],
        borrower |-> borrower]

\* SpvProof.encode_for_contract (API)
api_encode_for_contract(prf) ==
  LET tx == ChainTx(prf.txid_vout) IN
  << prf.checkpoint_height, prf.headers, tx.raw_tx, tx.merkle_proof,
     tx.tx_index, tx.output_index, prf.borrower >>

\* ------------------------------------------------------ API token (pure)

\* A string is None (absent), Empty, or a non-empty value 1, 2, ...
Empty == 0

\* Python truthiness of an Optional[str].
Truthy(str) == str # None /\ str # Empty

\* Mutant of verify_api_token: requests from the local host pass.
verify_api_token_local_bypass(request, api_key, settings) ==
  IF ~Truthy(settings.api_token) THEN [admitted |-> TRUE, status |-> 200, detail |-> ""]
  ELSE IF request.client_host = "127.0.0.1"
    THEN [admitted |-> TRUE, status |-> 200, detail |-> ""]
  ELSE IF ~Truthy(api_key)
    THEN [admitted |-> FALSE, status |-> 401, detail |-> "API token required"]
  ELSE IF api_key # settings.api_token
    THEN [admitted |-> FALSE, status |-> 401, detail |-> "Invalid API token"]
  ELSE [admitted |-> TRUE, status |-> 200, detail |-> ""]

\* verify_api_token; api_key is what APIKeyHeader(name="X-API-Key") reads
\* from the request's headers.
verify_api_token(request, api_key, settings) ==
  IF ~Truthy(settings.api_token) THEN [admitted |-> TRUE, status |-> 200, detail |-> ""]
  ELSE IF ~Truthy(api_key)
    THEN [admitted |-> FALSE, status |-> 401, detail |-> "API token required"]
  ELSE IF api_key # settings.api_token
    THEN [admitted |-> FALSE, status |-> 401, detail |-> "Invalid API token"]
  ELSE [admitted |-> TRUE, status |-> 200, detail |-> ""]

\* ------------------------------------------------------ btc_to_sats (pure)

\* A Decimal is a coefficient, the sequence of its decimal digits without
\* leading zeros (<<0>> for zero), and an exponent; amounts are not negative.
Zeros(n) == [i \in 1..n |-> 0]

RECURSIVE StripLeadingZeros(_)
StripLeadingZeros(digits) ==
  IF Len(digits) > 1 /\ digits[1] = 0 THEN StripLeadingZeros(Tail(digits)) ELSE digits

\* Decimal("<int_part>.<frac>"): exact.
DecimalOf(int_part, frac) ==
  [coef |-> StripLeadingZeros(int_part \o frac), exp |-> -Len(frac)]

\* The digits of the coefficient plus one.
RECURSIVE Increment(_)
Increment(digits) ==
  IF digits = <<>> THEN <<1>>
  ELSE LET n == Len(digits) IN
       IF digits[n] < 9 THEN [digits EXCEPT ![n] = @ + 1]
       ELSE Append(Increment(SubSeq(digits, 1, n - 1)), 0)

\* Rounding of a result to the precision of the context (ROUND_HALF_EVEN).
RoundToPrec(dec) ==
  LET n == Len(dec.coef) IN
  IF n <= DECIMAL_PREC THEN dec
  ELSE
  LET kept == SubSeq(dec.coef, 1, DECIMAL_PREC)
      dropped == SubSeq(dec.coef, DECIMAL_PREC + 1, n)
      tail_nonzero == \E i \in 2..Len(dropped) : dropped[i] # 0
      up == \/ dropped[1] > 5
            \/ dropped[1] = 5 /\ (tail_nonzero \/ kept[DECIMAL_PREC] % 2 = 1)
      rounded == IF up THEN Increment(kept) ELSE kept
  IN
  IF Len(rounded) > DECIMAL_PREC
    THEN [coef |-> SubSeq(rounded, 1, DECIMAL_PREC), exp |-> dec.exp + (n - DECIMAL_PREC) + 1]
    ELSE [coef |-> rounded, exp |-> dec.exp + (n - DECIMAL_PREC)]

\* dec_value * SATS_PER_BTC
times_sats_per_btc(dec) ==
  IF dec.coef = <<0>> THEN dec
  ELSE RoundToPrec([coef |-> dec.coef \o Zeros(SATS_DIGITS), exp |-> dec.exp])

\* sats == sats.to_integral_value()
is_integral(dec) ==
  \/ dec.exp >= 0
  \/ \A i \in 1..Len(dec.coef) : i > Len(dec.coef) + dec.exp => dec.coef[i] = 0

\* int(sats), as digits
int_of(dec) ==
  IF dec.exp >= 0 THEN StripLeadingZeros(dec.coef \o Zeros(dec.exp))
  ELSE IF Len(dec.coef) + dec.exp <= 0 THEN <<0>>
  ELSE SubSeq(dec.coef, 1, Len(dec.coef) + dec.exp)

\* btc_to_sats for the amount written "<int_part>.<frac>"
btc_to_sats(int_part, frac) ==
  LET sats == times_sats_per_btc(DecimalOf(int_part, frac)) IN
  IF ~is_integral(sats) THEN [raised |-> TRUE, sats |-> <<>>]
                        ELSE [raised |-> FALSE, sats |-> int_of(sats)]

\* ------------------------------------------------- library calls by a client

\* The call returns to its caller.
Return ==
  /\ fn # "idle"
  /\ fn' = "idle"
  /\ args' = <<>>
  /\ result' = <<>>
  /\ UNCHANGED <<storeVars, histVars, envVars, relayerVars>>
  /\ UNCHANGED hcVars

\* ProofBuilder.build_proof called with any heights (tip_height = None: the
\* argument is omitted).  rpc_fails: the position of the chain request that
\* raises, or whose data fails one of the transaction and Merkle checks
\* (0: none).  The heights are validated before the first request.
BuildProofCall(k, checkpoint_height, target_height, tip_height, rpc_fails) ==
  LET r == build_proof(k, checkpoint_height, target_height, BorrowerOf(k), tip_height)
      heights_ok == r.ok
  IN
  /\ fn = "idle"
  /\ fn' = "build_proof"
  /\ args' = [checkpoint_height |-> checkpoint_height,
              target_height |-> target_height, tip_height |-> tip_height]
  /\ result' = (IF heights_ok /\ rpc_fails # 0
                  THEN [ok |-> FALSE, error |-> "RpcOrData"]
                  ELSE r)
               @@ [rpc_requests |-> rpc_requests(heights_ok, rpc_fails)]
  /\ UNCHANGED <<storeVars, histVars, envVars, relayerVars>>
  /\ UNCHANGED hcVars

ProofBuilderNext ==
  \/ \E k \in Keys, checkpoint_height \in 0..MaxHeight, target_height \in 0..MaxHeight,
        tip_height \in {None} \cup 0..(MaxHeight + MIN_CONFIRMATIONS),
        rpc_fails \in 0..Len(ChainRequests) :
        BuildProofCall(k, checkpoint_height, target_height, tip_height, rpc_fails)
  \/ Return

ProofBuilderSpec == Init /\ [][ProofBuilderNext]_vars

\* The relayer's and the CLI's entry point: ProofBuilder.build_proof of the
\* prover with its default tip, then encode_for_contract.
ProverProofCall(k, checkpoint_height, target_height, rpc_fails) ==
  LET r == build_proof(k, checkpoint_height, target_height, BorrowerOf(k), None) IN
  /\ fn = "idle"
  /\ fn' = "prover_build_proof"
  /\ args' = [txid_vout |-> k, checkpoint_height |-> checkpoint_height,
              target_height |-> target_height]
  /\ result' = IF rpc_fails \/ ~r.ok THEN [success |-> FALSE]
                ELSE [success |-> TRUE, encoded |-> encode_for_contract(r)]
  /\ UNCHANGED <<storeVars, histVars, envVars, relayerVars>>
  /\ UNCHANGED hcVars

\* POST /spv/build-proof: ProofBuilder.build_proof of the API, then
\* encode_for_contract; every exception becomes success = False.
SpvBuildProofCall(k, checkpoint_height, target_height, rpc_fails) ==
  LET r == api_build_proof(k, checkpoint_height, target_height, BorrowerOf(k)) IN
  /\ fn = "idle"
  /\ fn' = "spv_build_proof"
  /\ args' = [txid_vout |-> k, checkpoint_height |-> checkpoint_height,
              target_height |-> target_height]
  /\ result' = IF rpc_fails \/ ~r.ok THEN [success |-> FALSE]
                ELSE [success |-> TRUE, encoded |-> api_encode_for_contract(r)]
  /\ UNCHANGED <<storeVars, histVars, envVars, relayerVars>>
  /\ UNCHANGED hcVars

ProofEncodingNext ==
  \/ \E k \in Keys, checkpoint_height \in 0..MaxHeight, target_height \in 0..MaxHeight,
        rpc_fails \in BOOLEAN :
        ProverProofCall(k, checkpoint_height, target_height, rpc_fails)
  \/ \E k \in Keys, checkpoint_height \in 0..MaxHeight, target_height \in 0..MaxHeight,
        rpc_fails \in BOOLEAN :
        SpvBuildProofCall(k, checkpoint_height, target_height, rpc_fails)
  \/ Return

ProofEncodingSpec == Init /\ [][ProofEncodingNext]_vars

\* A request to a protected endpoint: its client address, its X-API-Key
\* header and a token in its query string, under a configured API_TOKEN.
VerifyApiTokenCall(client_host, x_api_key, query_token, api_token) ==
  LET request == [client_host |-> client_host, x_api_key |-> x_api_key,
                  query_token |-> query_token]
  IN
  /\ fn = "idle"
  /\ fn' = "verify_api_token"
  /\ args' = [request |-> request, api_token |-> api_token]
  /\ result' = verify_api_token(request, request.x_api_key, [api_token |-> api_token])
  /\ UNCHANGED <<storeVars, histVars, envVars, relayerVars>>
  /\ UNCHANGED hcVars

AuthNext ==
  \/ \E client_host \in {"127.0.0.1", "::1", "203.0.113.7"},
        x_api_key \in {None, Empty} \cup (1..NumSecrets),
        query_token \in {None} \cup (1..NumSecrets),
        api_token \in {None, Empty} \cup (1..NumSecrets) :
        VerifyApiTokenCall(client_host, x_api_key, query_token, api_token)
  \/ Return

AuthSpec == Init /\ [][AuthNext]_vars

\* BTC amounts as digit strings: no, one or 21 million whole coins, and a
\* fraction of places digits, zeros between a first and a last digit.
IntParts == { <<0>>, <<1>>, <<2, 1, 0, 0, 0, 0, 0, 0>> }
Fraction(places, first, last) ==
  [i \in 1..places |-> IF i = places THEN last ELSE IF i = 1 THEN first ELSE 0]

BtcToSatsCall(int_part, frac) ==
  /\ fn = "idle"
  /\ fn' = "btc_to_sats"
  /\ args' = [int_part |-> int_part, frac |-> frac]
  /\ result' = btc_to_sats(int_part, frac)
  /\ UNCHANGED <<storeVars, histVars, envVars, relayerVars>>
  /\ UNCHANGED hcVars

BtcToSatsNext ==
  \/ \E int_part \in IntParts, places \in 0..MaxFracDigits, first \in {0, 1},
        last \in {0, 1, 5} :
        BtcToSatsCall(int_part, Fraction(places, first, last))
  \/ Return

BtcToSatsSpec == Init /\ [][BtcToSatsNext]_vars

\* Inputs of the claim-token calls.
Secrets == 1..NumSecrets
Borrowers == {11, 12}
BtcAddresses == {21, 22}
ChainIds == {7}
Nonces == {33}
TtlInputs == {-1, 0, 59, 60, MaxTtl}
VerifyTimes == (IssueTime - 62)..(IssueTime + MaxTtl + 2)

IssueClaimTokenCall(secret, borrower, btc_address, chain_id, ttl_seconds, nonce) ==
  /\ fn = "idle"
  /\ fn' = "issue_claim_token"
  /\ args' = [secret |-> secret, borrower |-> borrower, btc_address |-> btc_address,
              chain_id |-> chain_id, ttl_seconds |-> ttl_seconds, now |-> IssueTime]
  /\ result' = issue_claim_token(secret, borrower, btc_address, chain_id,
                                 ttl_seconds, IssueTime, nonce)
  /\ UNCHANGED <<storeVars, histVars, envVars, relayerVars>>
  /\ UNCHANGED hcVars

\* verify_claim_token at clock reading now, on the token that
\* issue_claim_token gave out at IssueTime under the secret issuer; args keeps
\* what was issued next to the arguments.
VerifyClaimTokenCall(issuer, borrower, btc_address, ttl_seconds, secret, now) ==
  LET chain_id == CHOOSE c \in ChainIds : TRUE
      nonce == CHOOSE n \in Nonces : TRUE
      issued == issue_claim_token(issuer, borrower, btc_address, chain_id,
                                  ttl_seconds, IssueTime, nonce)
  IN
  /\ fn = "idle"
  /\ fn' = "verify_claim_token"
  /\ args' = [secret |-> secret, token |-> issued.token, now |-> now,
              issuer |-> issuer, ttl_seconds |-> ttl_seconds, issued |-> issued.payload]
  /\ result' = verify_claim_token(secret, issued.token, now)
  /\ UNCHANGED <<storeVars, histVars, envVars, relayerVars>>
  /\ UNCHANGED hcVars

ClaimTokenNext ==
  \/ \E secret \in Secrets, borrower \in Borrowers, btc_address \in BtcAddresses,
        chain_id \in ChainIds, ttl_seconds \in TtlInputs, nonce \in Nonces :
        IssueClaimTokenCall(secret, borrower, btc_address, chain_id, ttl_seconds, nonce)
  \/ \E issuer \in Secrets, borrower \in Borrowers, btc_address \in BtcAddresses,
        ttl_seconds \in TtlInputs, secret \in Secrets, now \in VerifyTimes :
        VerifyClaimTokenCall(issuer, borrower, btc_address, ttl_seconds, secret, now)
  \/ Return

ClaimTokenSpec == Init /\ [][ClaimTokenNext]_vars

\* What decode_btc_address returns: None (NoRow), or a pubkey hash with its type.
DecodedAddresses ==
  {NoRow} \cup { [expected_hash |-> 1, addr_type |-> t] : t \in {"p2pkh", "p2wpkh"} }

VerifyBip137Call(decoded, sig_len, header, recovered) ==
  /\ fn = "idle"
  /\ fn' = "verify_bip137_signature"
  /\ args' = [decoded |-> decoded, sig_len |-> sig_len, header |-> header]
  /\ result' = verify_bip137_signature(decoded, sig_len, header, recovered)
  /\ UNCHANGED <<storeVars, histVars, envVars, relayerVars>>
  /\ UNCHANGED hcVars

SignMessageNext ==
  \/ \E decoded \in DecodedAddresses, sig_len \in {64, 65, 66}, header \in 0..255,
        recovered \in {None, 1, 2} :
        VerifyBip137Call(decoded, sig_len, header, recovered)
  \/ Return

SignMessageSpec == Init /\ [][SignMessageNext]_vars

\* The txids of the model.
LeafValues == {1, 2}

\* The txid lists of blocks: 1..MaxLeaves txids, repeated values included.
RECURSIVE ListsOfLen(_)
ListsOfLen(n) ==
  IF n = 0 THEN {<<>>}
  ELSE { Append(l, <<v>>) : l \in ListsOfLen(n - 1), v \in LeafValues }
LeafLists == UNION { ListsOfLen(n) : n \in 1..MaxLeaves }

\* generate_merkle_proof(leaves, tx_index) of one of the two implementations
\* and, when it returns, verify_merkle_proof of the same implementation on
\* its proof and root for leaves[tx_index].
GenerateMerkleProofCall(impl, leaves, tx_index) ==
  LET g == IF impl = "prover" THEN generate_merkle_proof(leaves, tx_index)
                              ELSE api_generate_merkle_proof(leaves, tx_index)
      leaf == leaves[tx_index + 1]
  IN
  /\ fn = "idle"
  /\ fn' = "generate_merkle_proof"
  /\ args' = [impl |-> impl, leaves |-> leaves, tx_index |-> tx_index]
  /\ result' = IF ~g.ok THEN [ok |-> FALSE]
                ELSE [ok |-> TRUE, proof |-> g.proof, root |-> g.root,
                      verified |-> IF impl = "prover"
                        THEN verify_merkle_proof(leaf, g.root, g.proof, tx_index)
                        ELSE api_verify_merkle_proof(leaf, g.root, g.proof, tx_index)]
  /\ UNCHANGED <<storeVars, histVars, envVars, relayerVars>>
  /\ UNCHANGED hcVars

\* verify_merkle_proof of one of the two implementations for a txid of the
\* block against the block's Merkle root, with the empty proof or the proof
\* of some leaf, and any tx_index.
VerifyMerkleProofCall(impl, leaves, txid, siblings, tx_index) ==
  LET merkle_root == compute_merkle_root(leaves).root IN
  /\ fn = "idle"
  /\ fn' = "verify_merkle_proof"
  /\ args' = [impl |-> impl, leaves |-> leaves, txid |-> txid,
              merkle_root |-> merkle_root, proof |-> siblings, tx_index |-> tx_index]
  /\ result' = IF impl = "prover"
                 THEN verify_merkle_proof(txid, merkle_root, siblings, tx_index)
                 ELSE api_verify_merkle_proof(txid, merkle_root, siblings, tx_index)
  /\ UNCHANGED <<storeVars, histVars, envVars, relayerVars>>
  /\ UNCHANGED hcVars

MerkleNext ==
  \/ \E impl \in {"prover", "api"}, leaves \in LeafLists :
       \E tx_index \in 0..(Len(leaves) - 1) :
          GenerateMerkleProofCall(impl, leaves, tx_index)
  \/ \E impl \in {"prover", "api"}, leaves \in LeafLists :
       \E i \in 1..Len(leaves), j \in 0..Len(leaves), tx_index \in 0..MaxLeaves :
          VerifyMerkleProofCall(impl, leaves, leaves[i],
             IF j = 0 THEN <<>> ELSE generate_merkle_proof(leaves, j - 1).proof,
             tx_index)
  \/ Return

MerkleSpec == Init /\ [][MerkleNext]_vars

\* The configuration /claim/complete runs under.  api_key_ok: the request
\* carries the API token, or none is required.
Configured ==
  [claim_mode |-> TRUE, claim_secret |-> 1, api_key_ok |-> TRUE,
   evm_client |-> TRUE, private_key |-> TRUE, btc_spv_verifier |-> TRUE,
   hash_credit_manager |-> TRUE]

SettingsInputs ==
  { Configured,
    [Configured EXCEPT !.claim_mode = FALSE],
    [Configured EXCEPT !.claim_secret = None],
    [Configured EXCEPT !.api_key_ok = FALSE],
    [Configured EXCEPT !.evm_client = FALSE],
    [Configured EXCEPT !.private_key = FALSE],
    [Configured EXCEPT !.btc_spv_verifier = FALSE],
    [Configured EXCEPT !.hash_credit_manager = FALSE] }

\* The claims /claim/start issued tokens for.
ClaimInputs == { [borrower |-> 11, btc_address |-> 21], [borrower |-> 12, btc_address |-> 22] }

\* A base64 string with its first character replaced by the next one.
TamperFirst(str) == [str EXCEPT ![1] = (@ + 1) % 64]

\* The token a client presents: the issued one, the issued one with its HMAC
\* part or its payload part altered, one made with another secret, or a
\* string without a ".".
TokenKinds == {"issued", "mac", "body", "other_secret", "nodot"}

PresentedToken(kind, claim) ==
  LET chain_id == CHOOSE c \in ChainIds : TRUE
      nonce == CHOOSE n \in Nonces : TRUE
      issued == issue_claim_token(Configured.claim_secret, claim.borrower,
                                  claim.btc_address, chain_id, 60, IssueTime, nonce)
      forged == issue_claim_token(NumSecrets, claim.borrower, claim.btc_address,
                                  chain_id, 60, IssueTime, nonce)
  IN
  [payload |-> issued.payload,
   token |-> CASE kind = "issued" -> issued.token
               [] kind = "mac" -> Token(issued.token.body_b64, TamperFirst(issued.token.mac_b64))
               [] kind = "body" -> Token(TamperFirst(issued.token.body_b64), issued.token.mac_b64)
               [] kind = "other_secret" -> forged.token
               [] OTHER -> NoDot]

\* EVM signatures: one that does not parse, and those of the checksummed
\* signers 11 and 13 over the claim message or over a stale one.
EvmSignatures(message) ==
  {BadSignature} \cup
  { [signer |-> a, message |-> m] : a \in {11, 13}, m \in {message, <<>>} }

\* BIP-137 signatures: one that does not decode, and 65-byte ones with a
\* header of each family made by the key of hash 1 or 2.
BtcSignatures(message) ==
  {BadSignature, [sig_len |-> 65, header |-> 31, key_hash |-> 1, message |-> <<>>]} \cup
  { [sig_len |-> 65, header |-> h, key_hash |-> k, message |-> message] :
      h \in {31, 35, 39}, k \in {1, 2} }

\* POST /claim/complete, up to the answer or the first await.
ClaimCompleteCall(settings, kind, claim, evm_signature, btc_signature, dry_run, now) ==
  LET presented == PresentedToken(kind, claim)
      request == [claim_token |-> presented.token, evm_signature |-> evm_signature,
                  btc_signature |-> btc_signature, dry_run |-> dry_run]
  IN
  /\ fn = "idle"
  /\ fn' = "claim_complete"
  /\ args' = [settings |-> settings, request |-> request, now |-> now,
              kind |-> kind, issued |-> presented.payload, earlier |-> <<>>]
  /\ result' = claim_complete(settings, request, now)
  /\ UNCHANGED <<storeVars, histVars, envVars, relayerVars>>
  /\ UNCHANGED hcVars

\* await _evm_client.set_borrower_pubkey_hash(...): the receipt comes back,
\* or the call raises before or after the transaction went out (sent) and
\* the request ends in an HTTP 500.
SetBorrowerPubkeyHash(raises, sent) ==
  LET tx == [fn |-> "setBorrowerPubkeyHash", borrower |-> result.borrower,
             pubkey_hash |-> result.pubkey_hash]
  IN
  /\ fn = "claim_complete"
  /\ result.pc = "set_borrower_pubkey_hash"
  /\ result' =
       IF raises
         THEN [result EXCEPT !.pc = "done", !.http = 500,
                             !.txs = IF sent THEN Append(@, tx) ELSE @]
         ELSE [result EXCEPT !.pc = "get_borrower_status",
                             !.txs = Append(@, tx), !.tx_set_pubkey_hash = 1]
  /\ UNCHANGED <<fn, args, storeVars, histVars, envVars, relayerVars>>
  /\ UNCHANGED hcVars

\* try: status = await _evm_client.get_borrower_status(...) except: status = 0,
\* then the branch on status == 0.  borrower_status is what the manager
\* holds for the borrower (0: never registered).
GetBorrowerStatus(borrower_status) ==
  LET reply == get_borrower_status(borrower_status)
      status == IF reply.raised THEN 0 ELSE reply.status
  IN
  /\ fn = "claim_complete"
  /\ result.pc = "get_borrower_status"
  /\ result' = [result EXCEPT !.borrower_status = borrower_status,
                              !.pc = IF status = 0 THEN "register_borrower" ELSE "done",
                              !.success = (status # 0)]
  /\ UNCHANGED <<fn, args, storeVars, histVars, envVars, relayerVars>>
  /\ UNCHANGED hcVars

\* await _evm_client.register_borrower(borrower, btc_payout_key_hash)
RegisterBorrower(raises, sent) ==
  LET tx == [fn |-> "registerBorrower", borrower |-> result.borrower,
             btc_payout_key_hash |-> result.btc_payout_key_hash]
  IN
  /\ fn = "claim_complete"
  /\ result.pc = "register_borrower"
  /\ result' =
       IF raises
         THEN [result EXCEPT !.pc = "done", !.http = 500,
                             !.txs = IF sent THEN Append(@, tx) ELSE @]
         ELSE [result EXCEPT !.pc = "done", !.success = TRUE,
                             !.txs = Append(@, tx), !.tx_register_borrower = 2]
  /\ UNCHANGED <<fn, args, storeVars, histVars, envVars, relayerVars>>
  /\ UNCHANGED hcVars

\* The response goes out once the handler is done.
ClaimReturn ==
  /\ fn = "claim_complete"
  /\ result.pc = "done"
  /\ Return

ClaimNext ==
  \/ \E settings \in SettingsInputs, kind \in TokenKinds, claim \in ClaimInputs,
        dry_run \in BOOLEAN, now \in {IssueTime, IssueTime + 61} :
        \E evm_signature \in EvmSignatures(build_claim_message(PresentedToken(kind, claim).payload)),
           btc_signature \in BtcSignatures(build_claim_message(PresentedToken(kind, claim).payload)) :
           ClaimCompleteCall(settings, kind, claim, evm_signature, btc_signature, dry_run, now)
  \/ \E raises \in BOOLEAN, sent \in BOOLEAN : SetBorrowerPubkeyHash(raises, sent)
  \/ \E borrower_status \in 0..1 : GetBorrowerStatus(borrower_status)
  \/ \E raises \in BOOLEAN, sent \in BOOLEAN : RegisterBorrower(raises, sent)
  \/ ClaimReturn

ClaimSpec == Init /\ [][ClaimNext]_vars

\* ------------------------------------- direct mapping and /claim/start

\* What a direct mapping endpoint answers with: the HTTP status, success and
\* error of its response, the transactions it sent (txs), and pc ("send":
\* suspended at the await of the EVM call; "done": it has answered).
DirectResponse ==
  [pc |-> "done", http |-> 200, success |-> FALSE, error |-> "",
   dry_run |-> FALSE, txs |-> <<>>]

\* Mutant of set_borrower_pubkey_hash: no check of borrower_mapping_mode.
set_borrower_pubkey_hash_ungated(settings, request) ==
  LET base == [DirectResponse EXCEPT !.dry_run = request.dry_run] IN
  IF ~settings.api_key_ok THEN [base EXCEPT !.http = 401]
  ELSE IF ~settings.evm_client THEN [base EXCEPT !.http = 503]
  ELSE IF ~settings.private_key /\ ~request.dry_run THEN [base EXCEPT !.http = 503]
  ELSE IF ~settings.btc_spv_verifier THEN [base EXCEPT !.http = 503]
  ELSE IF decode_btc_address(request.btc_address) = NoRow
    THEN [base EXCEPT !.error = "Invalid or unsupported Bitcoin address format"]
  ELSE IF request.dry_run THEN [base EXCEPT !.success = TRUE]
  ELSE [base EXCEPT !.pc = "send"]

\* POST /borrower/set-pubkey-hash up to its await: the API-token dependency,
\* the configuration checks, the mode check, the address and the dry run.
set_borrower_pubkey_hash(settings, request) ==
  LET base == [DirectResponse EXCEPT !.dry_run = request.dry_run] IN
  IF ~settings.api_key_ok THEN [base EXCEPT !.http = 401]
  ELSE IF ~settings.evm_client THEN [base EXCEPT !.http = 503]
  ELSE IF ~settings.private_key /\ ~request.dry_run THEN [base EXCEPT !.http = 503]
  ELSE IF ~settings.btc_spv_verifier THEN [base EXCEPT !.http = 503]
  ELSE IF settings.claim_mode THEN [base EXCEPT !.http = 403]
  ELSE IF decode_btc_address(request.btc_address) = NoRow
    THEN [base EXCEPT !.error = "Invalid or unsupported Bitcoin address format"]
  ELSE IF request.dry_run THEN [base EXCEPT !.success = TRUE]
  ELSE [base EXCEPT !.pc = "send"]

\* POST /manager/register-borrower up to its await.
register_borrower(settings, request) ==
  LET base == [DirectResponse EXCEPT !.dry_run = request.dry_run] IN
  IF ~settings.api_key_ok THEN [base EXCEPT !.http = 401]
  ELSE IF ~settings.evm_client THEN [base EXCEPT !.http = 503]
  ELSE IF ~settings.private_key /\ ~request.dry_run THEN [base EXCEPT !.http = 503]
  ELSE IF ~settings.hash_credit_manager THEN [base EXCEPT !.http = 503]
  ELSE IF settings.claim_mode THEN [base EXCEPT !.http = 403]
  ELSE IF request.dry_run THEN [base EXCEPT !.success = TRUE]
  ELSE [base EXCEPT !.pc = "send"]

\* Web3.to_checksum_address: the checksummed spelling of the address.
to_checksum_address(address) == 2 * (address \div 2) + 1

\* POST /claim/start: the token it issues (NoRow: none).  A borrower that is
\* not an address is None.
claim_start(settings, request, now) ==
  LET base == [http |-> 200, success |-> FALSE, error |-> "", claim_token |-> NoRow]
      chain_id == CHOOSE c \in ChainIds : TRUE
      nonce == CHOOSE n \in Nonces : TRUE
  IN
  IF ~settings.claim_mode THEN [base EXCEPT !.error = "Claim flow is disabled"]
  ELSE IF settings.claim_secret = None
    THEN [base EXCEPT !.error = "CLAIM_SECRET not configured"]
  ELSE IF ~settings.api_key_ok THEN [base EXCEPT !.http = 401]
  ELSE IF decode_btc_address(request.btc_address) = NoRow
    THEN [base EXCEPT !.error = "Invalid or unsupported Bitcoin address format"]
  ELSE IF request.borrower = None
    THEN [base EXCEPT !.error = "Invalid borrower EVM address"]
  ELSE [base EXCEPT !.success = TRUE,
                    !.claim_token =
                      issue_claim_token(settings.claim_secret,
                                        to_checksum_address(request.borrower),
                                        request.btc_address, chain_id, 60, now,
                                        nonce).token]

DirectEndpoints == {"set_borrower_pubkey_hash", "register_borrower"}

\* A request to one of the direct mapping endpoints, up to the answer or the
\* await of the EVM call.
DirectMappingCall(endpoint, settings, borrower, btc_address, dry_run) ==
  LET request == [borrower |-> borrower, btc_address |-> btc_address,
                  dry_run |-> dry_run]
  IN
  /\ fn = "idle"
  /\ fn' = endpoint
  /\ args' = [settings |-> settings, request |-> request]
  /\ result' = IF endpoint = "set_borrower_pubkey_hash"
                 THEN set_borrower_pubkey_hash(settings, request)
                 ELSE register_borrower(settings, request)
  /\ UNCHANGED <<storeVars, histVars, envVars, relayerVars>>
  /\ UNCHANGED hcVars

\* The awaited EVM call of a direct endpoint: the receipt comes back with
\* status 1 or 0, or the call raises before or after the transaction went
\* out (sent); the handler's except clause answers with the error.
DirectSend(raises, sent, status) ==
  LET tx == [fn |-> IF fn = "set_borrower_pubkey_hash"
                      THEN "setBorrowerPubkeyHash" ELSE "registerBorrower",
             borrower |-> args.request.borrower]
  IN
  /\ fn \in DirectEndpoints
  /\ result.pc = "send"
  /\ result' =
       IF raises
         THEN [result EXCEPT !.pc = "done", !.error = "raised",
                             !.txs = IF sent THEN Append(@, tx) ELSE @]
         ELSE [result EXCEPT !.pc = "done", !.success = (status = 1),
                             !.txs = Append(@, tx)]
  /\ UNCHANGED <<fn, args, storeVars, histVars, envVars, relayerVars>>
  /\ UNCHANGED hcVars

DirectReturn ==
  /\ fn \in DirectEndpoints
  /\ result.pc = "done"
  /\ Return

\* POST /claim/start
ClaimStartCall(settings, borrower, btc_address, now) ==
  LET request == [borrower |-> borrower, btc_address |-> btc_address] IN
  /\ fn = "idle"
  /\ fn' = "claim_start"
  /\ args' = [settings |-> settings, request |-> request, now |-> now]
  /\ result' = claim_start(settings, request, now)
  /\ UNCHANGED <<storeVars, histVars, envVars, relayerVars>>
  /\ UNCHANGED hcVars

ClaimStartReturn ==
  /\ fn = "claim_start"
  /\ Return

\* The requests to /claim/complete of the mapping specification: every
\* configuration, the issued token inside and outside its window, a good
\* and a bad signature of each kind.
MappingClaimComplete ==
  \E settings \in SettingsInputs, claim \in ClaimInputs, dry_run \in BOOLEAN,
     now \in {IssueTime, IssueTime + 61} :
     LET message == build_claim_message(PresentedToken("issued", claim).payload)
         decoded == decode_btc_address(claim.btc_address)
     IN
     \E evm_signature \in {BadSignature,
                           [signer |-> to_checksum_address(claim.borrower),
                            message |-> message]},
        btc_signature \in {BadSignature,
                           [sig_len |-> 65,
                            header |-> IF decoded.addr_type = "p2pkh" THEN 31 ELSE 39,
                            key_hash |-> decoded.expected_hash,
                            message |-> message]} :
        ClaimCompleteCall(settings, "issued", claim, evm_signature,
                          btc_signature, dry_run, now)

MappingNext ==
  \/ \E endpoint \in DirectEndpoints, settings \in SettingsInputs,
        borrower \in Borrowers, btc_address \in BtcAddresses \cup {23},
        dry_run \in BOOLEAN :
        DirectMappingCall(endpoint, settings, borrower, btc_address, dry_run)
  \/ \E raises \in BOOLEAN, sent \in BOOLEAN, status \in 0..1 :
        DirectSend(raises, sent, status)
  \/ DirectReturn
  \/ \E settings \in SettingsInputs, borrower \in Borrowers \cup {None},
        btc_address \in BtcAddresses \cup {23} :
        ClaimStartCall(settings, borrower, btc_address, IssueTime)
  \/ ClaimStartReturn
  \/ MappingClaimComplete
  \/ \E raises \in BOOLEAN, sent \in BOOLEAN : SetBorrowerPubkeyHash(raises, sent)
  \/ \E borrower_status \in 0..1 : GetBorrowerStatus(borrower_status)
  \/ \E raises \in BOOLEAN, sent \in BOOLEAN : RegisterBorrower(raises, sent)
  \/ ClaimReturn

MappingSpec == Init /\ [][MappingNext]_vars

\* ------------------------------------------- /claim/complete, repeated

\* The response has gone out and the client presents the same token and the
\* same signatures again, at clock reading now; args.earlier keeps the
\* transactions each earlier presentation sent.
ClaimCompleteAgain(now) ==
  /\ fn = "claim_complete"
  /\ result.pc = "done"
  /\ Len(args.earlier) < MaxTx
  /\ args' = [args EXCEPT !.now = now, !.earlier = Append(@, result.txs)]
  /\ result' = claim_complete(args.settings, args.request, now)
  /\ UNCHANGED <<fn, storeVars, histVars, envVars, relayerVars>>
  /\ UNCHANGED hcVars

\* Clock readings around the window of a token issued at IssueTime for 60
\* seconds: one second before the skew limit, at the limit, at the expiry
\* and one second after it.
ReplayTimes == {IssueTime - 61, IssueTime - 60, IssueTime + 60, IssueTime + 61}

\* The first presentations of the replay specification: the issued token
\* with a good or a bad signature of each kind, with and without the
\* private key configured.
ReplayClaimComplete ==
  \E settings \in {Configured, [Configured EXCEPT !.private_key = FALSE]},
     claim \in ClaimInputs, dry_run \in BOOLEAN, now \in ReplayTimes :
     LET message == build_claim_message(PresentedToken("issued", claim).payload)
         decoded == decode_btc_address(claim.btc_address)
     IN
     \E evm_signature \in {BadSignature,
                           [signer |-> to_checksum_address(claim.borrower),
                            message |-> message]},
        btc_signature \in {BadSignature,
                           [sig_len |-> 65,
                            header |-> IF decoded.addr_type = "p2pkh" THEN 31 ELSE 39,
                            key_hash |-> decoded.expected_hash,
                            message |-> message]} :
        ClaimCompleteCall(settings, "issued", claim, evm_signature,
                          btc_signature, dry_run, now)

ReplayNext ==
  \/ ReplayClaimComplete
  \/ \E now \in ReplayTimes : ClaimCompleteAgain(now)
  \/ \E raises \in BOOLEAN, sent \in BOOLEAN : SetBorrowerPubkeyHash(raises, sent)
  \/ \E borrower_status \in 0..1 : GetBorrowerStatus(borrower_status)
  \/ \E raises \in BOOLEAN, sent \in BOOLEAN : RegisterBorrower(raises, sent)
  \/ ClaimReturn

ReplaySpec == Init /\ [][ReplayNext]_vars

\* A chain of n headers in which every header names the hash of the one
\* before it; every block holds the one transaction raw_tx.
RECURSIVE SyntheticChain(_, _)
SyntheticChain(n, raw_tx) ==
  IF n = 0 THEN <<>>
  ELSE LET parents == SyntheticChain(n - 1, raw_tx)
           parent_hash == IF n = 1 THEN <<>>
                          ELSE block_hash(from_bytes(parents[n - 1]))
       IN Append(parents, << 1, parent_hash, txid_of(raw_tx), n, 1, n >>)

\* The serialized header with the bytes of one field changed.
Corrupt(data, field) ==
  [data EXCEPT ![field] = IF field \in {2, 3} THEN <<0, 0, 0>> ELSE @ + 1]

\* verify_proof_locally or the CLI's verify-local on a proof over a synthetic
\* chain of n headers with the transaction in its last block with
\* MIN_CONFIRMATIONS confirmations (its first block if the chain is shorter),
\* field `field` of header k changed (k = None: nothing changed).
VerifyChainCall(impl, n, raw_tx, k, field) ==
  LET chain == SyntheticChain(n, raw_tx)
      headers == IF k = None THEN chain
                 ELSE [chain EXCEPT ![k + 1] = Corrupt(@, field)]
      prf == [headers |-> headers, tx_block_index |-> Max(n - MIN_CONFIRMATIONS, 0),
              raw_tx |-> raw_tx, merkle_proof |-> <<>>, tx_index |-> 0]
  IN
  /\ fn = "idle"
  /\ fn' = impl
  /\ args' = [proof |-> prf, corrupted |-> k, field |-> HeaderFields[field]]
  /\ result' = IF impl = "verify_proof_locally" THEN verify_proof_locally(prf)
                                                 ELSE verify_local(prf)
  /\ UNCHANGED <<storeVars, histVars, envVars, relayerVars>>
  /\ UNCHANGED hcVars

HeaderChainNext ==
  \/ \E impl \in {"verify_proof_locally", "verify_local"}, n \in 2..MaxChain,
        raw_tx \in 1..2 :
        \E k \in {None} \cup 0..(n - 1), field \in DOMAIN HeaderFields :
           VerifyChainCall(impl, n, raw_tx, k, field)
  \/ Return

HeaderChainSpec == Init /\ [][HeaderChainNext]_vars

\* The txids that end pages, the requests a client can make, and the pages
\* the upstream answers with: empty, one short of full, or full, ending in
\* any cursor txid or in an entry without txid; or an HTTP error.
Cursors == 1..NumCursors
Urls == {None} \cup Cursors
PageOf(len, last) == [i \in 1..len |-> IF i = len THEN last ELSE 100 + i]
Pages ==
  {<<>>, HttpError} \cup
  { PageOf(len, last) : len \in {PAGE_SIZE - 1, PAGE_SIZE}, last \in {None} \cup Cursors }

\* get_address_txs(address) against an upstream, up to its loop.
GetAddressTxsCall(upstream) ==
  /\ fn = "idle"
  /\ fn' = "get_address_txs"
  /\ args' = [upstream |-> upstream]
  /\ result' = get_address_txs_locals
  /\ UNCHANGED <<storeVars, histVars, envVars, relayerVars>>
  /\ UNCHANGED hcVars

\* One iteration of its while loop (one request, unless the cursor repeats).
FetchPage ==
  /\ fn = "get_address_txs"
  /\ result.pc = "loop"
  /\ result' = loop_iteration(args.upstream, result)
  /\ UNCHANGED <<fn, args, storeVars, histVars, envVars, relayerVars>>
  /\ UNCHANGED hcVars

\* return txs, or the exception of raise_for_status leaves the function.
GetAddressTxsReturn ==
  /\ fn = "get_address_txs"
  /\ result.pc \in {"done", "raised"}
  /\ Return

PaginationNext ==
  \/ \E upstream \in [Urls -> Pages] : GetAddressTxsCall(upstream)
  \/ FetchPage
  \/ GetAddressTxsReturn

\* The loop is straight-line code between requests: an iteration that can
\* run does run.
PaginationSpec == Init /\ [][PaginationNext]_vars /\ WF_vars(FetchPage)

\* ================================================================= claims

InPending(k) == pending[k] # NoRow
InSubmitted(k) == submitted[k] # NoRow

\* C1 (as claimed; refuted on StoreSpec): after any sequence of add_pending,
\* mark_submitted and remove_pending calls no key is in both the pending and
\* the submitted table.
C1_PendingSubmittedDisjoint ==
  \A k \in Keys : ~(InPending(k) /\ InSubmitted(k))

\* C2: for every key at most one submitPayout transaction succeeds on-chain,
\* whatever the relayer, the store and restarts do, given the contract's
\* replay guard.
Successes(k) == Cardinality({ n \in 1..Len(receipts[k]) : receipts[k][n] = 1 })
C2_AtMostOneSuccess ==
  \A k \in Keys : Successes(k) <= 1

\* C2 witness: a key accepted once was submitted again and rejected.
C2_ResubmissionRejected ==
  \E k \in Keys : Len(receipts[k]) >= 2 /\ receipts[k][1] = 1 /\ receipts[k][2] = 0

\* C3 (as claimed; refuted on Spec): mark_submitted is called only after a
\* receipt with status 1, so every submitted row names a successful
\* transaction; a reverted one leaves the row in pending.
C3_SubmittedOnlyAfterSuccess ==
  \A k \in Keys : InSubmitted(k) => StatusOf(k, submitted[k].evm_tx_hash) = 1

\* C4: of the add_pending calls on a key made while its row is not removed,
\* exactly one returned true, the key has one pending row, and that row is
\* the one the first call passed.
C4_AddPendingOnce ==
  \A k \in Keys :
    addCalls[k] > 0 => /\ addTrue[k] = 1
                       /\ InPending(k)
                       /\ pending[k] = firstRow[k]

\* C4 witness: a key was passed to add_pending more than once in a row.
C4_DuplicateAdd ==
  \E k \in Keys : addCalls[k] = 2 /\ addTrue[k] = 1

\* C5 (as claimed; refuted on StoreSpec): mark_submitted on a key that is in
\* pending moves it: afterwards the key is submitted and not pending, and the
\* submitted row carries the pending row's borrower, amount_sats and
\* block_height and the given evm_tx_hash.
C5_MarkSubmittedMoves ==
  [][\A k \in Keys, c \in MarkInputs :
       (InPending(k) /\ MarkSubmittedCall(k, c.evm_tx_hash, c.now)) =>
          /\ is_submitted(submitted', k)
          /\ k \notin get_pending(pending')
          /\ submitted'[k].borrower = pending[k].borrower
          /\ submitted'[k].amount_sats = pending[k].amount_sats
          /\ submitted'[k].block_height = pending[k].block_height
          /\ submitted'[k].evm_tx_hash = c.evm_tx_hash]_vars

\* C6: mark_submitted on a key with no pending row leaves both tables as they
\* are and does not raise.
C6_MarkSubmittedWithoutPendingIsNoop ==
  [][\A k \in Keys, c \in MarkInputs :
       (~InPending(k) /\ MarkSubmittedCall(k, c.evm_tx_hash, c.now)) =>
          /\ pending' = pending
          /\ submitted' = submitted
          /\ storeResult' # "raised"]_vars

\* C6 witness: mark_submitted was called with no pending row, every key the
\* clients use having been moved to submitted before.
C6_NoopAfterMove ==
  /\ storeResult = "noop"
  /\ \A k \in StoreKeys : InSubmitted(k) /\ ~InPending(k)

\* C7: a submitted row is never deleted and never changes.
C7_SubmittedTerminal ==
  [][\A k \in Keys : InSubmitted(k) => submitted'[k] = submitted[k]]_vars

\* C7 witness: mark_submitted was tried on a key that is in submitted.
C7_SecondMarkRefused ==
  /\ storeResult = "raised"
  /\ \E k \in Keys : InSubmitted(k) /\ InPending(k)

\* C8: process_pending goes on to checkpoint selection, proof building and
\* submission for a payout only if tip - block_height + 1 >=
\* required_confirmations, tip being the height read when the pass began; a
\* payout below that is skipped and the tables are left as they are.
C8_ConfirmationsGate ==
  /\ [](pc \in {"select", "build", "submit"} =>
          current_height - payout.block_height + 1 >= required_confirmations)
  /\ [][(pc = "process" /\ pc' = "payout") => current_height' = tip]_vars
  /\ [][(/\ pc = "payout"
         /\ idx <= Len(plist)
         /\ current_height - payout.block_height + 1 < required_confirmations)
        => /\ pending' = pending
           /\ submitted' = submitted
           /\ pc' \notin {"select", "build", "submit"}]_vars

\* C8 witness: in one pass a payout below the threshold was skipped and is
\* still pending, and the next one, exactly at the threshold, went on.
C8_SkippedThenSelected ==
  /\ pc = "select"
  /\ idx = 2
  /\ current_height - plist[1].block_height + 1 < required_confirmations
  /\ pending[plist[1].txid_vout] = plist[1]
  /\ current_height - payout.block_height + 1 = required_confirmations

\* C9 (as claimed; refuted on Spec): a checkpoint is selected for a payout
\* only if it is not 0, lies below the payout's block, and is at most
\* MAX_HEADER_CHAIN below the tip up to which the proof's headers run.
C9_CheckpointWithinHeaderChain ==
  pc = "build" =>
    /\ checkpoint # 0
    /\ checkpoint < payout.block_height
    /\ (payout.block_height + MIN_CONFIRMATIONS - 1) - checkpoint <= max_header_chain

\* C10 (as claimed; refuted on Spec): every proof build_proof returns, and so
\* every proof the relayer submits, has at most MAX_HEADER_CHAIN headers.
C10_ProofHeadersBounded ==
  pc = "submit" => Len(proof.headers) <= max_header_chain

\* C11: every proof build_proof returns has headers for checkpoint_height + 1
\* up to tip_height, so len(headers) = tip_height - checkpoint_height;
\* tx_block_index = target_height - checkpoint_height - 1 lies within the
\* headers; len(headers) - tx_block_index >= MIN_CONFIRMATIONS; an omitted
\* tip_height stands for target_height + MIN_CONFIRMATIONS - 1 (checkpoint
\* 800000 and target 800006 give 11 headers and index 5).
C11_ProofShape ==
  /\ (fn = "build_proof" /\ result.ok) =>
        LET tip_height == IF args.tip_height = None
                            THEN args.target_height + MIN_CONFIRMATIONS - 1
                            ELSE args.tip_height
            n == Len(result.headers)
        IN /\ n = tip_height - args.checkpoint_height
           /\ \A i \in 1..n : result.headers[i] = args.checkpoint_height + i
           /\ result.tx_block_index = args.target_height - args.checkpoint_height - 1
           /\ 0 <= result.tx_block_index /\ result.tx_block_index < n
           /\ n - result.tx_block_index >= MIN_CONFIRMATIONS
  /\ LET r == build_proof(1, 800000, 800006, BorrowerOf(1), None)
     IN r.ok /\ Len(r.headers) = 11 /\ r.tx_block_index = 5

\* C11 witness: a proof was returned for a call that passed no tip_height.
C11_ProofWithDefaultTip ==
  /\ fn = "build_proof"
  /\ result.ok
  /\ args.tip_height = None
  /\ Len(result.headers) - result.tx_block_index = MIN_CONFIRMATIONS

\* C13: a token whose HMAC verifies under the secret is accepted by
\* verify_claim_token at time now, which then returns its payload, if and
\* only if exp >= now and iat <= now + 60; it is rejected as expired when
\* exp < now and as issued in the future when iat > now + 60.
C13_TokenWindow ==
  (fn = "verify_claim_token" /\ args.secret = args.issuer) =>
     LET exp == args.issued.expires_at
         iat == args.issued.issued_at
     IN /\ result.ok <=> (exp >= args.now /\ iat <= args.now + 60)
        /\ result.ok => result.payload = args.issued
        /\ exp < args.now => result.error = "Token expired"
        /\ (exp >= args.now /\ iat > args.now + 60) =>
              result.error = "Token issued in the future"

\* C13 witness: a token was accepted 60 seconds before its issue time.
C13_AcceptedAtSkewLimit ==
  /\ fn = "verify_claim_token"
  /\ result.ok
  /\ args.now = args.issued.issued_at - 60

\* C14: a token from issue_claim_token has exp = iat + max(60, ttl_seconds);
\* under the issuing secret it verifies at every now in [iat, exp] and the
\* payload returned is the one issued; under another secret, and at every
\* now > exp, verification fails.
C14_TokenRoundTrip ==
  /\ fn = "issue_claim_token" =>
        /\ result.payload.issued_at = args.now
        /\ result.payload.expires_at =
              args.now + (IF args.ttl_seconds > 60 THEN args.ttl_seconds ELSE 60)
        /\ result.payload.borrower = args.borrower
        /\ result.payload.btc_address = args.btc_address
        /\ result.payload.chain_id = args.chain_id
  /\ fn = "verify_claim_token" =>
        /\ (/\ args.secret = args.issuer
            /\ args.issued.issued_at <= args.now
            /\ args.now <= args.issued.expires_at)
             => (result.ok /\ result.payload = args.issued)
        /\ args.secret # args.issuer => ~result.ok
        /\ args.now > args.issued.expires_at => ~result.ok

\* C14 witness: a token issued with a ttl below 60 verified at its expiry time.
C14_ShortTtlVerifiedAtExpiry ==
  /\ fn = "verify_claim_token"
  /\ result.ok
  /\ args.ttl_seconds < 60
  /\ args.now = args.issued.expires_at

\* C18: verify_bip137_signature goes on to public-key recovery only for a
\* header in 27..30 on a p2pkh address (uncompressed, recid = h - 27), in
\* 31..34 on a p2pkh address (compressed, recid = h - 31) or in 39..42 on a
\* p2wpkh address (compressed, recid = h - 39); for 35..38, any other header
\* or a family that does not match the address type it returns false and
\* recovers no key.
C18_HeaderTable ==
  fn = "verify_bip137_signature" =>
    LET h == args.header
        t == IF args.decoded = NoRow THEN "none" ELSE args.decoded.addr_type
        signed == args.sig_len = 65
    IN /\ (signed /\ 27 <= h /\ h <= 30 /\ t = "p2pkh") =>
             result.recovery = [recid |-> h - 27, compressed |-> FALSE]
       /\ (signed /\ 31 <= h /\ h <= 34 /\ t = "p2pkh") =>
             result.recovery = [recid |-> h - 31, compressed |-> TRUE]
       /\ (signed /\ 39 <= h /\ h <= 42 /\ t = "p2wpkh") =>
             result.recovery = [recid |-> h - 39, compressed |-> TRUE]
       /\ ~(signed /\ ((27 <= h /\ h <= 34 /\ t = "p2pkh")
                        \/ (39 <= h /\ h <= 42 /\ t = "p2wpkh"))) =>
             (result.recovery = NoRow /\ ~result.ret /\ ~result.raised)

\* C18 witness: a key was recovered for header 42 on a p2wpkh address.
C18_Bech32Recovered ==
  /\ fn = "verify_bip137_signature"
  /\ args.header = 42
  /\ result.recovery = [recid |-> 3, compressed |-> TRUE]
  /\ result.ret

\* C19: for every non-empty list of leaves and every index i within it, the
\* proof and root that generate_merkle_proof(leaves, i) returns make
\* verify_merkle_proof(leaves[i], root, proof, i) true, and the root is
\* compute_merkle_root(leaves), a level of odd length having its last element
\* duplicated; for the prover's and for the API's pair of functions.
C19_MerkleRoundTrip ==
  fn = "generate_merkle_proof" =>
    /\ result.ok
    /\ result.verified
    /\ result.root = compute_merkle_root(args.leaves).root
    /\ Len(args.leaves) = 3 =>
          result.root = sha256d(sha256d(args.leaves[1], args.leaves[2]),
                                sha256d(args.leaves[3], args.leaves[3]))

\* C19 witness: the API's functions proved and verified the last of three
\* leaves.
C19_OddLevelProved ==
  /\ fn = "generate_merkle_proof"
  /\ args.impl = "api"
  /\ Len(args.leaves) = 3
  /\ args.tx_index = 2
  /\ result.verified

\* C20 (as claimed; refuted on MerkleSpec): verify_merkle_proof with an empty
\* proof returns true if and only if root = leaf and tx_index = 0.
C20_EmptyProofOnlyAtIndexZero ==
  (fn = "verify_merkle_proof" /\ args.proof = <<>>) =>
     (result <=> (args.merkle_root = args.txid /\ args.tx_index = 0))

\* What the client of a /claim/complete call presented, in terms of how the
\* request was made rather than of what the handler computed.
ClaimMessage == build_claim_message(args.issued)

TokenVerifies ==
  /\ args.kind = "issued"
  /\ args.issued.expires_at >= args.now
  /\ args.issued.issued_at <= args.now + 60

\* The signer and the payload's borrower are spellings of one address.
EvmSignerIsBorrower ==
  /\ args.request.evm_signature # BadSignature
  /\ args.request.evm_signature.message = ClaimMessage
  /\ args.request.evm_signature.signer \div 2 = args.issued.borrower \div 2

Bip137Verifies ==
  LET sig == args.request.btc_signature
      decoded == decode_btc_address(args.issued.btc_address)
  IN
  /\ sig # BadSignature
  /\ sig.sig_len = 65
  /\ sig.message = ClaimMessage
  /\ sig.key_hash = decoded.expected_hash
  /\ \/ decoded.addr_type = "p2pkh" /\ sig.header \in 27..34
     \/ decoded.addr_type = "p2wpkh" /\ sig.header \in 39..42

ClaimVerified == TokenVerifies /\ EvmSignerIsBorrower /\ Bip137Verifies

\* The guards claim_complete passes before it looks at the token, and the
\* configuration it needs before it sends.
GuardsPass ==
  /\ args.settings.claim_mode
  /\ args.settings.claim_secret # None
  /\ args.settings.api_key_ok
  /\ args.settings.evm_client

CanSend ==
  /\ args.settings.private_key
  /\ args.settings.btc_spv_verifier
  /\ args.settings.hash_credit_manager

SetPubkeyHashTx ==
  [fn |-> "setBorrowerPubkeyHash", borrower |-> args.issued.borrower,
   pubkey_hash |-> decode_btc_address(args.issued.btc_address).expected_hash]

\* set_borrower_pubkey_hash was called: the handler waits on it, its
\* transaction is out, or the call raised (HTTP 500 with nothing sent).
SetPubkeyHashCalled ==
  \/ result.pc = "set_borrower_pubkey_hash"
  \/ result.txs # <<>>
  \/ result.http = 500

\* C12 as stated: a claim_complete call with dry_run false that has answered
\* and whose RPC did not fail has sent setBorrowerPubkeyHash if and only if
\* the token, the EVM signature and the BIP-137 signature verify.
C12_SentIffVerified ==
  (fn = "claim_complete" /\ ~args.request.dry_run /\ result.pc = "done"
     /\ result.http # 500)
    => ((result.txs # <<>>) <=> ClaimVerified)

\* C12, amended: in a claim_complete call with dry_run false,
\* set_borrower_pubkey_hash is called if and only if the request passes the
\* handler's guards (claim mode, claim secret, API token, EVM client), the
\* token, the EVM signature and the BIP-137 signature verify, and the private
\* key and both contract addresses are configured; the first transaction
\* sent is setBorrowerPubkeyHash with the borrower and the pubkey hash of
\* the token's payload, and in every other case no transaction is sent.
C12_SentIffVerifiedAndConfigured ==
  (fn = "claim_complete" /\ ~args.request.dry_run)
    => /\ SetPubkeyHashCalled <=> (GuardsPass /\ ClaimVerified /\ CanSend)
       /\ result.txs # <<>> => result.txs[1] = SetPubkeyHashTx
       /\ (result.pc = "done" /\ ~result.success /\ result.http # 500)
            => result.txs = <<>>

\* A borrower spelled in lower case whose checksummed address signed: the
\* transaction is out.
C12_LowerCaseBorrowerSent ==
  /\ fn = "claim_complete"
  /\ ~args.request.dry_run
  /\ args.issued.borrower = 12
  /\ args.request.evm_signature # BadSignature
  /\ args.request.evm_signature.signer = 13
  /\ result.txs # <<>>
  /\ result.txs[1] = SetPubkeyHashTx
\* The presented token differs from the issued one in its HMAC part or in
\* its payload part.
TokenAltered == args.kind \in {"mac", "body", "other_secret"}

RegisterBorrowerTx ==
  [fn |-> "registerBorrower", borrower |-> args.issued.borrower,
   btc_payout_key_hash |-> keccak(args.issued.btc_address)]

\* The transactions of the call in the order they were sent.
TxNames == [i \in DOMAIN result.txs |-> result.txs[i].fn]

\* register_borrower was called: the handler waits on it, its transaction
\* is out, or the call raised (HTTP 500 after the first transaction).
RegisterBorrowerCalled ==
  \/ result.pc = "register_borrower"
  \/ \E i \in DOMAIN result.txs : result.txs[i] = RegisterBorrowerTx
  \/ result.http = 500 /\ result.tx_set_pubkey_hash # None

\* C16: in a claim_complete call with dry_run false that has got past the
\* manager's answer, registerBorrower(borrower, keccak256(utf8(btc_address)))
\* is to be sent if and only if the manager holds status 0 (never
\* registered) for the borrower, and only after setBorrowerPubkeyHash.
C16_RegisterIffNeverRegistered ==
  (fn = "claim_complete" /\ ~args.request.dry_run /\ result.borrower_status # None)
    => /\ RegisterBorrowerCalled <=> (result.borrower_status = 0)
       /\ result.success =>
            TxNames = IF result.borrower_status = 0
                        THEN <<"setBorrowerPubkeyHash", "registerBorrower">>
                        ELSE <<"setBorrowerPubkeyHash">>
\* The same request with dry_run false.
LiveAnswer ==
  claim_complete(args.settings, [args.request EXCEPT !.dry_run = FALSE], args.now)

\* C17: a claim_complete call with dry_run true answers at once and sends no
\* transaction in any outcome; it fails exactly where, and with the error
\* with which, the same request with dry_run false fails its guards, its
\* token check or a signature check; it succeeds exactly when the token and
\* both signatures verify, and then returns the pubkey hash of the payload's
\* address and btc_payout_key_hash = keccak256(utf8(btc_address)) with no
\* transaction hash.
C17_DryRunSendsNothing ==
  (fn = "claim_complete" /\ args.request.dry_run)
    => /\ result.pc = "done"
       /\ result.txs = <<>>
       /\ result.tx_set_pubkey_hash = None
       /\ result.tx_register_borrower = None
       /\ result.dry_run
       /\ result.success <=> (GuardsPass /\ ClaimVerified)
       /\ result.success <=> (LiveAnswer.pubkey_hash # None)
       /\ ~result.success => result = [LiveAnswer EXCEPT !.dry_run = TRUE]
       /\ result.success =>
            /\ result.http = 200
            /\ result.pubkey_hash = decode_btc_address(args.issued.btc_address).expected_hash
            /\ result.btc_payout_key_hash = keccak(args.issued.btc_address)

\* A dry run that succeeds on a service with no private key.
C17_DryRunSucceeds ==
  /\ fn = "claim_complete"
  /\ args.request.dry_run
  /\ ~args.settings.private_key
  /\ result.success
  /\ result.pubkey_hash = 2
  /\ result.btc_payout_key_hash = keccak(22)
\* The header loop of the call found the chain intact / broken at index i.
LinkageAccepts == result.stage \in {"merkle", "done"}
LinkageFailsAt(i) == result.stage = "linkage" /\ result.broken_at = i

\* A call of the local verifier that got to its header loop.
ChainChecked ==
  /\ fn \in {"verify_proof_locally", "verify_local"}
  /\ result.stage \notin {"headers", "tx_block_index", "confirmations"}

\* C21 as stated: the linkage check accepts an intact chain, and after a
\* change to header k it fails at index k.
C21_LinkageFailsAtCorruptedHeader ==
  ChainChecked =>
    IF args.corrupted = None THEN LinkageAccepts
                             ELSE LinkageFailsAt(args.corrupted)

\* C21, amended: the linkage check accepts an intact chain of at least 2
\* headers; after a change to header k it fails at index k when the change
\* is in the prev_block_hash field of a header other than the first, at
\* index k + 1 when the change is elsewhere (or in the first header) and
\* header k is not the last, and it still accepts when the change is in the
\* last header outside its prev_block_hash field.
C21_LinkageFailsAtOrAfterCorruptedHeader ==
  ChainChecked =>
    LET k == args.corrupted
        last == Len(args.proof.headers) - 1
    IN
    IF k = None THEN LinkageAccepts
    ELSE IF args.field = "prev_block_hash" /\ k > 0 THEN LinkageFailsAt(k)
    ELSE IF k < last THEN LinkageFailsAt(k + 1)
    ELSE LinkageAccepts

\* verify_proof_locally on a chain of MIN_CONFIRMATIONS + 1 headers whose
\* second header has another nonce: broken at the third header.
C21_NonceChangeFoundAtNextHeader ==
  /\ fn = "verify_proof_locally"
  /\ Len(args.proof.headers) = MIN_CONFIRMATIONS + 1
  /\ args.corrupted = 1
  /\ args.field = "nonce"
  /\ LinkageFailsAt(2)
\* The pages of the requests made, one after the other.
RECURSIVE ConcatPages(_, _)
ConcatPages(upstream, urls) ==
  IF urls = <<>> THEN <<>>
  ELSE upstream[Head(urls)] \o ConcatPages(upstream, Tail(urls))

\* A page after which get_address_txs asks for another one.
FullPage(page) ==
  /\ page # HttpError
  /\ Len(page) = PAGE_SIZE
  /\ page[Len(page)] # None

\* What get_address_txs has returned: the first request is the base URL,
\* each further one the /chain/ URL of the last txid of the page before,
\* which was full; the last page fetched is empty, short, without a last
\* txid, or ends in a cursor already asked for; no URL is asked for twice;
\* and the list returned is the pages in the order fetched.
ReturnedAllPages ==
  LET urls == result.urls
      up == args.upstream
      n == Len(urls)
  IN
  /\ n >= 1
  /\ urls[1] = None
  /\ \A i \in 1..(n - 1) :
        FullPage(up[urls[i]]) /\ urls[i + 1] = up[urls[i]][PAGE_SIZE]
  /\ \A i, j \in 1..n : i # j => urls[i] # urls[j]
  /\ up[urls[n]] # HttpError
  /\ \/ ~FullPage(up[urls[n]])
     \/ \E i \in 2..n : urls[i] = up[urls[n]][PAGE_SIZE]
  /\ result.txs = ConcatPages(up, urls)

\* C22: get_address_txs returns the concatenation of the pages it fetched,
\* /txs first and then /txs/chain/<last txid of the page before>, stopping
\* at the first page that is empty, short or without a last txid, or when a
\* cursor repeats; and every call ends (returns, or raises on an HTTP
\* error), also against an upstream that answers in a cycle.
C22_PaginationReturnsAllPagesAndEnds ==
  /\ []((fn = "get_address_txs" /\ result.pc = "done") => ReturnedAllPages)
  /\ []((fn = "get_address_txs" /\ result.pc = "raised")
          => args.upstream[result.urls[Len(result.urls)]] = HttpError)
  /\ ((fn = "get_address_txs") ~> (fn = "get_address_txs" /\ result.pc # "loop"))

\* A cycle of full pages: every cursor was asked for once, and the call
\* returned the base page and one page per cursor.
C22_CycleOfFullPagesEnded ==
  /\ fn = "get_address_txs"
  /\ result.pc = "done"
  /\ \A u \in Urls : FullPage(args.upstream[u])
  /\ Len(result.urls) = 1 + NumCursors
  /\ Len(result.txs) = (1 + NumCursors) * PAGE_SIZE
\* C23: every proof an entry point returns is the 8-field tuple
\* (checkpoint_height, headers, tx_block_index, raw_tx, merkle_proof,
\* tx_index, output_index, borrower) with headers from checkpoint_height + 1
\* through a tip that gives at least MIN_CONFIRMATIONS, and it is the proof
\* the prover's builder makes for the same inputs.
C23_SameEightFieldProof ==
  (fn \in {"prover_build_proof", "spv_build_proof"} /\ result.success) =>
     LET e == result.encoded
         r == build_proof(args.txid_vout, args.checkpoint_height, args.target_height,
                          BorrowerOf(args.txid_vout), None)
     IN /\ Len(e) = 8
        /\ e[1] = args.checkpoint_height
        /\ Len(e[2]) - (args.target_height - args.checkpoint_height - 1)
             >= MIN_CONFIRMATIONS
        /\ r.ok
        /\ e = encode_for_contract(r)
\* C24: verify_api_token admits a request if and only if no API token is
\* configured or the X-API-Key header is present and equal to the
\* configured token; otherwise the answer is 401, whatever the client's
\* address and whatever token the query string carries.
C24_AdmittedIffHeaderMatches ==
  fn = "verify_api_token" =>
    LET configured == args.api_token # None /\ args.api_token # Empty
        header == args.request.x_api_key
    IN /\ result.admitted <=> (~configured \/ (header # None /\ header = args.api_token))
       /\ ~result.admitted => result.status = 401

\* A local client with the right token in the query string only: 401.
C24_LocalQueryTokenRefused ==
  /\ fn = "verify_api_token"
  /\ args.request.client_host = "127.0.0.1"
  /\ args.api_token = 1
  /\ args.request.query_token = 1
  /\ args.request.x_api_key = None
  /\ result.status = 401
\* The value of a digit string that fits an integer.
RECURSIVE ValueOf(_)
ValueOf(digits) ==
  IF digits = <<>> THEN 0
  ELSE 10 * ValueOf(SubSeq(digits, 1, Len(digits) - 1)) + digits[Len(digits)]

\* v * 10^8 for v = "<int_part>.<frac>" without digits beyond the 8th place.
ExactSats(int_part, frac) ==
  StripLeadingZeros(int_part \o
    [i \in 1..SATS_DIGITS |-> IF i <= Len(frac) THEN frac[i] ELSE 0])

\* C25: btc_to_sats(v) returns exactly v * 10^8 for every v without a
\* non-zero digit beyond the 8th decimal place and raises for every v with
\* one; ten times btc_to_sats(0.1) is btc_to_sats(1.0).
C25_ExactOrRaises ==
  /\ fn = "btc_to_sats" =>
       LET fits == \A i \in 1..Len(args.frac) : i > SATS_DIGITS => args.frac[i] = 0
       IN IF fits THEN ~result.raised /\ result.sats = ExactSats(args.int_part, args.frac)
                  ELSE result.raised
  /\ 10 * ValueOf(btc_to_sats(<<0>>, <<1>>).sats) = ValueOf(btc_to_sats(<<1>>, <<0>>).sats)
\* What ProofBuilder.verify_proof_locally returns for the proof the relayer
\* holds, whose headers are heights: headers present, tx_block_index within
\* them, MIN_CONFIRMATIONS of them from the transaction's block on, each
\* header naming the one before (linked); the Merkle proof was compared with
\* the header by build_proof.
ProofVerifiesLocally ==
  /\ proof # NoRow
  /\ proof.headers # <<>>
  /\ proof.tx_block_index < Len(proof.headers)
  /\ Len(proof.headers) - proof.tx_block_index >= MIN_CONFIRMATIONS
  /\ proof.linked

\* C26: every submitPayout transaction the relayer sends carries a proof
\* that passes local verification, checked in the same _submit_payout call;
\* a proof that fails local verification is never submitted.
C26_SubmittedOnlyIfLocallyVerified ==
  [][receipts' # receipts => ProofVerifiesLocally]_vars

\* A pending payout of key k that process_pending would take up: enough
\* confirmations, a checkpoint select_checkpoint returns, and a proof the
\* contract accepts (not paid before, headers within MAX_HEADER_CHAIN).
Eligible(k) ==
  /\ pending[k] # NoRow
  /\ confirmations(tip, pending[k]) >= required_confirmations
  /\ select_checkpoint(pending[k].block_height, latestCheckpoint) # None
  /\ k \notin processed
  /\ (pending[k].block_height + MIN_CONFIRMATIONS - 1) - latestCheckpoint
       <= max_header_chain

\* Every eligible pending payout is eventually in submitted, unless it stops
\* being eligible or the account has sent its MaxTx transactions.
EligibleEventuallySubmitted ==
  \A k \in Keys :
    Eligible(k) ~> (submitted[k] # NoRow \/ ~Eligible(k) \/ TxCount = MaxTx)

\* A step of _submit_payout in which the submission of plist[idx] failed:
\* submit_payout raised, or the transaction was mined with a status other
\* than 1.
SubmissionFailed ==
  /\ pc = "submit"
  /\ pc' = "payout"
  /\ LET k == payout.txid_vout IN
       \/ receipts'[k] = receipts[k]
       \/ receipts'[k][Len(receipts'[k])] # 1

\* C27 (as claimed; refuted on LiveSpec): under fairness every eligible
\* pending payout is eventually moved to submitted, and a payout whose
\* submission failed stays in pending (and out of submitted) for the next
\* iteration to take up.
C27_EligibleSubmittedFailedStaysPending ==
  /\ EligibleEventuallySubmitted
  /\ [][SubmissionFailed =>
          LET k == payout.txid_vout IN
          pending'[k] = pending[k] /\ submitted'[k] = submitted[k]]_vars

\* The position scan_new_blocks works from: _last_scanned_height, or the
\* value it gives it when it is still None.
ScanPosition ==
  IF last_scanned_height = None
    THEN Max(tip - scan_batch_size, 0)
    ELSE last_scanned_height

\* A step of scan_new_blocks that got past get_block_count.
ScanStep == pc = "scan" /\ last_scanned_height' # None /\ pc' # "init"

\* C28: _last_scanned_height never decreases, never exceeds the tip, and
\* grows by at most scan_batch_size per iteration; it moves only in a step of
\* scan_new_blocks in which scan_range ran over all of
\* [last + 1 .. min(last + scan_batch_size, tip)], and then to that end; so
\* every output in a block above the starting position and at or below
\* _last_scanned_height has been passed to the store, also after a scan that
\* failed part-way.
C28_ScanPositionAdvancesOverScannedBlocks ==
  /\ [][(last_scanned_height # None /\ last_scanned_height' # None)
          => /\ last_scanned_height' >= last_scanned_height
             /\ (last_scanned_height' # last_scanned_height => pc = "scan")]_vars
  /\ [][ScanStep
          => /\ last_scanned_height' >= ScanPosition
             /\ last_scanned_height' <= tip
             /\ last_scanned_height' - ScanPosition <= scan_batch_size
             /\ last_scanned_height' # ScanPosition
                  => /\ last_scanned_height' = Min(ScanPosition + scan_batch_size, tip)
                     /\ pending' = scan_range(pending, submitted, ScanPosition + 1,
                                              last_scanned_height', clock)
                     /\ pc' = "process"]_vars
  /\ [](last_scanned_height # None => last_scanned_height <= tip)
  /\ [](\A k \in Keys :
          (/\ last_scanned_height # None
           /\ HeightOf(k) > Max(tip - scan_batch_size, 0)
           /\ HeightOf(k) <= last_scanned_height)
          => InPending(k) \/ InSubmitted(k))

\* A scan failed part-way: a block above the position has been scanned.
C28_PartialScanKeepsPosition ==
  /\ pc = "sleep"
  /\ last_scanned_height # None
  /\ last_scanned_height < tip
  /\ \E k \in Keys : InPending(k) /\ HeightOf(k) > last_scanned_height

\* C29: the first scan_new_blocks of a process that gets past
\* get_block_count sets _last_scanned_height to max(tip - scan_batch_size, 0)
\* and scans from the next height (it leaves the position there when the scan
\* fails, and at the end of the range otherwise); an output enters pending
\* only from a block above the position, so an output paid at or below the
\* initial height is never stored by the relayer (the tip is StartTip or more
\* when a process starts, and the store starts empty).
C29_NothingAtOrBelowInitialHeightScanned ==
  /\ [][(ScanStep /\ last_scanned_height = None)
          => LET initial == Max(tip - scan_batch_size, 0) IN
             /\ last_scanned_height' \in {initial, Min(initial + scan_batch_size, tip)}
             /\ pending' \in { scan_range(pending, submitted, initial + 1, h, clock) :
                                h \in initial..Min(initial + scan_batch_size, tip) }]_vars
  /\ [][\A k \in Keys :
          (~InPending(k) /\ pending'[k] # NoRow) => HeightOf(k) > ScanPosition]_vars
  /\ [](\A k \in Keys :
          HeightOf(k) <= Max(StartTip - scan_batch_size, 0)
            => ~InPending(k) /\ ~InSubmitted(k))

\* The process has scanned up to the tip and stored the outputs of the recent
\* blocks; the output paid in the block at its initial height is not stored.
C29_OldOutputNeverPending ==
  /\ last_scanned_height = tip
  /\ \E k \in Keys : InPending(k)
  /\ \E k \in Keys :
       /\ HeightOf(k) = StartTip - scan_batch_size
       /\ ~InPending(k) /\ ~InSubmitted(k)

\* C30 (as claimed; refuted on Spec): whatever happens while process_pending
\* handles plist[idx] (checkpoint selection, proof building, submission,
\* mark_submitted, each of which may raise), the pass goes on with the same
\* list, at this row or the next one, and the rows of the other keys are left
\* as they were in pending and in submitted.
C30_RowFailureLeavesPassRunning ==
  [][(pc \in {"select", "build", "submit"} /\ pc' \notin {pc, "init"})
       => /\ pc' \in {"payout", "build", "submit"}
          /\ plist' = plist
          /\ idx' \in {idx, idx + 1}
          /\ \A k \in Keys \ {payout.txid_vout} :
               pending'[k] = pending[k] /\ submitted'[k] = submitted[k]]_vars

\* Where the task is inside an iteration of run() (inside run_once).
InIteration == pc \in {"scan", "process", "payout", "select", "build", "submit"}

\* C31: no step of an iteration, raising or not, takes the task anywhere but
\* further into the iteration or to the sleep of the loop; the sleep ends,
\* and while _running is set the next iteration starts then.  (A step to
\* "init" is the process being replaced, not the loop ending.)
C31_ExceptionNeverEndsLoop ==
  /\ [][(InIteration /\ pc' \notin {pc, "init"})
          => (pc' = "sleep" \/ (InIteration)')]_vars
  /\ [][(pc = "sleep" /\ running /\ pc' \notin {pc, "init"}) => pc' = "scan"]_vars
  /\ (InIteration /\ running) ~> (pc \in {"sleep", "init"} \/ ~running)
  /\ (pc = "sleep" /\ running) ~> (pc \in {"scan", "init"} \/ ~running)

\* scan_range raised part-way in an earlier iteration (the position is still
\* the initial one, below the starting tip) and the loop is in a later
\* iteration.
C31_NextIterationAfterException ==
  /\ pc = "scan"
  /\ running
  /\ last_scanned_height # None
  /\ last_scanned_height < StartTip

\* C32: once stop() has cleared _running, the loop starts no further
\* iteration: the iteration under way goes on to its end, a submission in
\* flight included, and after the sleep run() returns.
C32_StopEndsLoopAfterIteration ==
  /\ [][(~running /\ pc # "init" /\ pc' # pc) => pc' \in {"init", "exited", "sleep"}
                                                  \/ (InIteration /\ (InIteration)')]_vars
  /\ [][(~running /\ pc = "sleep" /\ pc' \notin {pc, "init"}) => pc' = "exited"]_vars
  /\ (~running /\ pc = "submit") ~> (pc \in {"payout", "init"})
  /\ (~running /\ pc # "init") ~> (pc \in {"exited", "init"})

\* run() has returned after stop(), with a payout recorded in submitted.
C32_ExitedWithSubmissionRecorded ==
  /\ pc = "exited"
  /\ ~running
  /\ \E k \in Keys : InSubmitted(k) /\ ~InPending(k)

\* The heights of the build_proof call in args fail one of its three checks.
InvalidHeights ==
  LET tip_height == IF args.tip_height = None
                      THEN args.target_height + MIN_CONFIRMATIONS - 1
                      ELSE args.tip_height
  IN \/ args.target_height <= args.checkpoint_height
     \/ tip_height < args.target_height
     \/ tip_height - args.target_height + 1 < MIN_CONFIRMATIONS

\* C33: build_proof called with target_height <= checkpoint_height,
\* tip_height < target_height or fewer than MIN_CONFIRMATIONS confirmations
\* fails for its heights and issues no chain request.
C33_InvalidHeightsFailBeforeAnyRequest ==
  (fn = "build_proof" /\ InvalidHeights) =>
     /\ ~result.ok
     /\ result.error \in {"HeightOrdering", "InsufficientConfirmations"}
     /\ result.rpc_requests = <<>>

\* build_proof refused a tip that gives one confirmation too few.
C33_TooFewConfirmationsRefused ==
  /\ fn = "build_proof"
  /\ args.tip_height # None
  /\ args.target_height > args.checkpoint_height
  /\ args.tip_height - args.target_height + 1 = MIN_CONFIRMATIONS - 1
  /\ result.error = "InsufficientConfirmations"
  /\ result.rpc_requests = <<>>

\* C34: the relayer's scans never put into pending an output that is in
\* submitted: a key enters pending only while it is absent from submitted,
\* a scan leaves the pending entry of every submitted key as it was, and no
\* key is in both tables.  (is_submitted and add_pending of one output are
\* two synchronous calls of one task, so a scan is one step between the
\* task's other store calls.)
C34_ScanSkipsSubmittedOutputs ==
  /\ [](\A k \in Keys : ~(InPending(k) /\ InSubmitted(k)))
  /\ [][\A k \in Keys :
          (~InPending(k) /\ pending'[k] # NoRow)
             => (pc = "scan" /\ ~InSubmitted(k) /\ submitted'[k] = NoRow)]_vars
  /\ [][pc = "scan"
          => \A k \in Keys : InSubmitted(k) => pending'[k] = pending[k]]_vars

\* A scan has just returned; the range the process has scanned holds the
\* block of an output that is in submitted, which is not in pending, while
\* another output is.
C34_SubmittedOutputRescanned ==
  /\ pc = "process"
  /\ last_scanned_height # None
  /\ \E k \in Keys :
       /\ InSubmitted(k) /\ ~InPending(k)
       /\ HeightOf(k) > Max(tip - scan_batch_size, 0)
       /\ HeightOf(k) <= last_scanned_height
  /\ \E k \in Keys : InPending(k)

\* The outputs of the blocks start_height .. end_height of a chain, in block
\* order and in output order within a block.
RECURSIVE OutputsInRange(_, _, _)
OutputsInRange(chain, start_height, end_height) ==
  IF start_height > end_height THEN <<>>
  ELSE chain[start_height] \o OutputsInRange(chain, start_height + 1, end_height)

\* The block that holds output k in a chain.
BlockOf(chain, k) ==
  CHOOSE h \in DOMAIN chain : \E i \in DOMAIN chain[h] : chain[h][i] = k

\* C35: scan_range returns the payouts of exactly the outputs of the range
\* that add_pending inserted (those in neither table before the call), each
\* with the height of its block, in block order and output order; they are
\* the rows pending gained; the same scan on the store as the call left it
\* inserts nothing and returns the empty list.  (scan_block is the call with
\* start_height = end_height.)
C35_ScanReturnsFreshRowsInOrder ==
  fn = "scan_range" =>
    LET outs == OutputsInRange(args.chain, args.start_height, args.end_height)
        Fresh(k) == args.pending[k] = NoRow /\ submitted[k] = NoRow
        fresh == SelectSeq(outs, Fresh)
        again == scan_range_payouts([pending |-> pending, submitted |-> submitted,
                                     new_payouts |-> <<>>],
                                    args.chain, args.start_height, args.end_height, 1)
    IN /\ Len(result) = Len(fresh)
       /\ \A i \in 1..Len(fresh) :
            /\ result[i].txid_vout = fresh[i]
            /\ result[i].block_height = BlockOf(args.chain, fresh[i])
            /\ pending[fresh[i]] = result[i]
       /\ \A k \in Keys : (\A i \in 1..Len(fresh) : fresh[i] # k) => pending[k] = args.pending[k]
       /\ again.new_payouts = <<>>
       /\ again.pending = pending

\* A scan over one block with two outputs, the first already pending,
\* returned the second output alone.
C35_PendingOutputNotReturned ==
  /\ fn = "scan_range"
  /\ args.start_height = args.end_height
  /\ Len(args.chain[args.start_height]) >= 2
  /\ args.pending[args.chain[args.start_height][1]] # NoRow
  /\ Len(result) = 1
  /\ result[1].txid_vout = args.chain[args.start_height][2]

\* ------------------------------------------------------- HashCreditRelayer
\* The signing relayer (src/offchain/relayer/hashcredit_relayer), constructed
\* with an EVM client and watching one borrower whose address receives the
\* outputs StoreKeys.  Its process is synchronous: one step at a time.

\* Settings.confirmations_required
confirmations_required == 6

\* BitcoinApiClient.parse_tx: the confirmations of the transaction of key k
\* when the tip is tip_height.
parse_tx_confirmations(k, tip_height) == tip_height - HeightOf(k) + 1

\* BitcoinApiClient.find_payouts_to_address: the outputs to the address in
\* transactions with enough confirmations, in the order of the API's list.
RECURSIVE find_payouts(_, _)
find_payouts(k, tip_height) ==
  IF k > NumKeys THEN <<>>
  ELSE (IF parse_tx_confirmations(k, tip_height) < confirmations_required
          THEN <<>> ELSE <<k>>)
       \o find_payouts(k + 1, tip_height)

find_payouts_to_address(tip_height) == find_payouts(1, tip_height)

\* A check that lets a row of status "failed" through.
is_processed_unless_failed(table, k) == table[k] \notin {"none", "failed"}

\* PayoutDatabase.is_processed: a row exists, whatever its status.
is_processed(table, k) ==
  table[k] # "none"

\* PayoutDatabase.mark_processed: upsert of the row with the given status.
mark_processed(table, k, status) == [table EXCEPT ![k] = status]

\* PayoutDatabase.update_status: UPDATE ... WHERE txid, vout.
update_status(table, k, status) ==
  [table EXCEPT ![k] = IF @ = "none" THEN "none" ELSE status]

\* What EvmClient.submit_payout can come to: the payout is found processed
\* before sending ("already"), the transaction is mined with status 1
\* ("confirmed") or 0 ("reverted"), or a call raises ("error"); only
\* "confirmed" gives SubmitResult.success.
SubmitOutcomes == {"already", "confirmed", "reverted", "error"}

\* HashCreditRelayer.run is started (or started again after the process
\* was killed).
HcRun ==
  /\ cycle.pc = "stopped"
  /\ cycle' = [pc |-> "poll", payouts |-> <<>>]
  /\ UNCHANGED <<processed_payouts, submissions>>
  /\ UNCHANGED <<storeVars, histVars, envVars, relayerVars, callVars>>

\* run_once up to the list of _process_borrower: find_payouts_to_address
\* returns the confirmed payouts, or raises and run_once logs the error.
RunOnce(api_fails) ==
  /\ cycle.pc = "poll"
  /\ cycle' = IF api_fails
                THEN [pc |-> "sleep", payouts |-> <<>>]
                ELSE [pc |-> "loop", payouts |-> find_payouts_to_address(tip)]
  /\ UNCHANGED <<processed_payouts, submissions>>
  /\ UNCHANGED <<storeVars, histVars, envVars, relayerVars, callVars>>

\* One turn of the loop of _process_borrower, up to the row that
\* _submit_payout writes before it signs and submits.
ProcessPayout(rpc_fails) ==
  /\ cycle.pc = "loop"
  /\ cycle.payouts # <<>>
  /\ LET k == Head(cycle.payouts)
     IN IF is_processed(processed_payouts, k)
          THEN /\ ~rpc_fails
               /\ cycle' = [cycle EXCEPT !.payouts = Tail(@)]
               /\ UNCHANGED processed_payouts
          ELSE IF rpc_fails
            THEN \* evm.is_payout_processed raises: caught in run_once
                 /\ cycle' = [pc |-> "sleep", payouts |-> <<>>]
                 /\ UNCHANGED processed_payouts
            ELSE IF k \in processed
              THEN /\ processed_payouts' =
                        mark_processed(processed_payouts, k, "confirmed")
                   /\ cycle' = [cycle EXCEPT !.payouts = Tail(@)]
              ELSE /\ processed_payouts' =
                        mark_processed(processed_payouts, k, "pending")
                   /\ cycle' = [cycle EXCEPT !.pc = "submit"]
  /\ UNCHANGED submissions
  /\ UNCHANGED <<storeVars, histVars, envVars, relayerVars, callVars>>

\* The rest of _submit_payout: evm.submit_payout and update_status.
EvmSubmitPayout(outcome) ==
  /\ cycle.pc = "submit"
  /\ LET k == Head(cycle.payouts)
         success == outcome = "confirmed"
     IN /\ Len(submissions[k]) < MaxTx
        /\ outcome = "already" => k \in processed
        /\ outcome = "confirmed" => k \notin processed
        /\ submissions' = [submissions EXCEPT ![k] = Append(@, success)]
        /\ processed' = IF success THEN processed \cup {k} ELSE processed
        /\ processed_payouts' =
             update_status(processed_payouts, k,
                           IF success THEN "confirmed" ELSE "failed")
        /\ cycle' = [pc |-> "loop", payouts |-> Tail(cycle.payouts)]
  /\ UNCHANGED <<storeVars, histVars, tip, latestCheckpoint, receipts>>
  /\ UNCHANGED <<relayerVars, callVars>>

\* run_once returns and run sleeps poll_interval_seconds.
EndCycle ==
  /\ cycle.pc = "loop"
  /\ cycle.payouts = <<>>
  /\ cycle' = [pc |-> "sleep", payouts |-> <<>>]
  /\ UNCHANGED <<processed_payouts, submissions>>
  /\ UNCHANGED <<storeVars, histVars, envVars, relayerVars, callVars>>

\* The sleep ends and the loop of run starts the next cycle.
HcSleep ==
  /\ cycle.pc = "sleep"
  /\ cycle' = [pc |-> "poll", payouts |-> <<>>]
  /\ UNCHANGED <<processed_payouts, submissions>>
  /\ UNCHANGED <<storeVars, histVars, envVars, relayerVars, callVars>>

\* The process dies at any point; the database file stays.
Kill ==
  /\ cycle.pc # "stopped"
  /\ cycle' = [pc |-> "stopped", payouts |-> <<>>]
  /\ UNCHANGED <<processed_payouts, submissions>>
  /\ UNCHANGED <<storeVars, histVars, envVars, relayerVars, callVars>>

\* Another submitter (the SPV relayer) has the payout credited.
PaidElsewhere(k) ==
  /\ k \notin processed
  /\ processed' = processed \cup {k}
  /\ UNCHANGED <<storeVars, histVars, tip, latestCheckpoint, receipts>>
  /\ UNCHANGED <<relayerVars, callVars, hcVars>>

HcStep ==
  \/ HcRun
  \/ \E api_fails \in BOOLEAN : RunOnce(api_fails)
  \/ \E rpc_fails \in BOOLEAN : ProcessPayout(rpc_fails)
  \/ \E outcome \in SubmitOutcomes : EvmSubmitPayout(outcome)
  \/ EndCycle
  \/ HcSleep

HcLiveNext ==
  \/ HcStep
  \/ NewBlock
  \/ \E k \in StoreKeys : PaidElsewhere(k)

HcNext ==
  \/ HcLiveNext
  \/ Kill

HashCreditRelayerSpec == Init /\ [][HcNext]_vars

\* The process is never killed, every step of it is eventually taken, and
\* the Bitcoin API and the EVM RPC answer again and again.
HcFairness ==
  /\ WF_vars(HcStep)
  /\ SF_vars(RunOnce(FALSE))
  /\ SF_vars(ProcessPayout(FALSE))

HcLiveSpec == Init /\ [][HcLiveNext]_vars /\ HcFairness

\* C36: a payout whose submission failed (evm.submit_payout returned
\* success = false) while the contract has not processed it is submitted
\* again in a later cycle, unless the contract processes it meanwhile.
C36_FailedSubmissionRetried ==
  \A k \in StoreKeys :
    (/\ Len(submissions[k]) = 1
     /\ ~submissions[k][1]
     /\ k \notin processed)
      ~> (Len(submissions[k]) >= 2 \/ k \in processed)

\* C37: evm.submit_payout is called at most once for a key over the
\* lifetime of the database, whatever the status of its row and however
\* often the process is killed and started again.
C37_SubmitAtMostOncePerKey ==
  \A k \in StoreKeys : Len(submissions[k]) <= 1

\* A key whose row was written, whose process was then killed before the
\* submission, and which later cycles passed over: the row is still
\* "pending", nothing was submitted, and a cycle that listed the key has
\* reached its end.
C37_KilledBeforeSubmitNeverSubmitted ==
  \E k \in StoreKeys :
    /\ processed_payouts[k] = "pending"
    /\ submissions[k] = <<>>
    /\ cycle.pc = "sleep"
    /\ k \notin processed
    /\ \E j \in StoreKeys : j > k /\ Len(submissions[j]) = 1

\* A step in which scan_new_blocks raises: run_once ends and run sleeps.
ScanRaises == pc = "scan" /\ pc' = "sleep"

\* C38 as stated: when the scan raises, _last_scanned_height is left
\* unchanged, nothing is processed in that iteration, and the next iteration
\* starts with the position it was left with.
C38_ScanRaisesLeavesPositionUnchanged ==
  /\ [][ScanRaises
          => /\ last_scanned_height' = last_scanned_height
             /\ UNCHANGED <<submitted, processed, receipts, plist, idx>>]_vars
  /\ [][(pc = "sleep" /\ pc' = "scan")
          => last_scanned_height' = last_scanned_height]_vars

\* C38, amended: process_pending starts only from a scan_new_blocks that
\* returned, i.e. that left the position at the end of its range (or found
\* no new block); when the scan raises, the position the next scan works
\* from is unchanged - _last_scanned_height keeps its value, or, if it was
\* still None and get_block_count had answered, becomes the initial position
\* max(tip - scan_batch_size, 0) - nothing is processed in that iteration,
\* and the position stays as it is until the scan of the next iteration.
C38_ScanRaisesKeepsScanPosition ==
  /\ [][(pc' = "process" /\ pc # "process")
          => /\ pc = "scan"
             /\ last_scanned_height' =
                  IF tip <= ScanPosition THEN ScanPosition
                  ELSE Min(ScanPosition + scan_batch_size, tip)]_vars
  /\ [][ScanRaises
          => /\ \/ last_scanned_height' = last_scanned_height
                \/ /\ last_scanned_height = None
                   /\ last_scanned_height' = ScanPosition
             /\ ScanPosition' = ScanPosition
             /\ UNCHANGED <<submitted, processed, receipts, plist, idx>>]_vars
  /\ [][(pc = "sleep" /\ pc' # "init")
          => \/ last_scanned_height' = last_scanned_height
             \/ last_scanned_height = None]_vars

\* The iteration after a scan that raised part-way is about to scan: a
\* block above the unchanged position already has its output in pending.
C38_RangeAttemptedAgain ==
  /\ pc = "scan"
  /\ running
  /\ last_scanned_height # None
  /\ \E k \in Keys : InPending(k) /\ HeightOf(k) > last_scanned_height

\* A request to a mapping endpoint is being handled or has been answered.
MappingHandlers == DirectEndpoints \cup {"claim_complete"}

\* A direct endpoint's request passes the checks made before the mode check.
DirectChecksPass ==
  /\ args.settings.api_key_ok
  /\ args.settings.evm_client
  /\ args.settings.private_key \/ args.request.dry_run
  /\ IF fn = "set_borrower_pubkey_hash"
       THEN args.settings.btc_spv_verifier
       ELSE args.settings.hash_credit_manager

\* C39 as stated: in claim mode the direct endpoints answer 403 and send
\* nothing, and a transaction is sent only by claim_complete after both
\* signatures verified; outside claim mode /claim/start issues no token and
\* /claim/complete sends nothing.
C39_DirectMappingAnswers403 ==
  /\ (fn \in DirectEndpoints /\ args.settings.claim_mode)
       => /\ result.http = 403
          /\ result.pc = "done"
          /\ result.txs = <<>>
  /\ (fn \in MappingHandlers /\ args.settings.claim_mode /\ result.txs # <<>>)
       => fn = "claim_complete" /\ ClaimVerified
  /\ (fn = "claim_start" /\ ~args.settings.claim_mode)
       => ~result.success /\ result.claim_token = NoRow
  /\ (fn = "claim_complete" /\ ~args.settings.claim_mode)
       => result.pc = "done" /\ result.txs = <<>>

\* C39, amended: in claim mode a direct endpoint never reaches its EVM call;
\* it answers 403 when the request passes the checks made before the mode
\* check (API token, EVM client, private key unless dry run, contract
\* address) and 401 or 503 otherwise; a transaction is sent only by
\* claim_complete after the token and both signatures verified; outside
\* claim mode /claim/start issues no token and /claim/complete sends nothing.
C39_ClaimModeSendsOnlyFromClaimComplete ==
  /\ (fn \in DirectEndpoints /\ args.settings.claim_mode)
       => /\ result.http \in {401, 403, 503}
          /\ result.http = 403 <=> DirectChecksPass
          /\ result.pc = "done"
          /\ result.txs = <<>>
  /\ (fn \in MappingHandlers /\ args.settings.claim_mode /\ result.txs # <<>>)
       => fn = "claim_complete" /\ ClaimVerified
  /\ (fn = "claim_start" /\ ~args.settings.claim_mode)
       => ~result.success /\ result.claim_token = NoRow
  /\ (fn = "claim_complete" /\ ~args.settings.claim_mode)
       => result.pc = "done" /\ result.txs = <<>>

\* /borrower/set-pubkey-hash in claim mode, fully configured and not a dry
\* run: answered 403 with nothing sent.
C39_DirectSetRefusedInClaimMode ==
  /\ fn = "set_borrower_pubkey_hash"
  /\ args.settings = Configured
  /\ ~args.request.dry_run
  /\ decode_btc_address(args.request.btc_address) # NoRow
  /\ result.http = 403
  /\ result.txs = <<>>

\* The handler acted on the request: the dry-run success, or the call of
\* set_borrower_pubkey_hash, or the 503 for the configuration it lacks.
ClaimAccepted ==
  IF args.request.dry_run THEN result.success /\ result.pc = "done"
  ELSE IF CanSend THEN SetPubkeyHashCalled
  ELSE result.http = 503

\* C40: claim_complete keeps no state between requests: a token presented
\* with signatures that verify is acted on in every presentation made while
\* issued_at - 60 <= now <= expires_at and in no other, however often the
\* same token was presented and acted on before; every presentation that
\* gets a transaction out sends setBorrowerPubkeyHash for the token's
\* borrower again.
C40_SameTokenAcceptedEveryTime ==
  fn = "claim_complete"
    => /\ (GuardsPass /\ args.kind = "issued" /\ EvmSignerIsBorrower /\ Bip137Verifies)
            => (ClaimAccepted
                  <=> /\ args.issued.issued_at - 60 <= args.now
                      /\ args.now <= args.issued.expires_at)
       /\ result.txs # <<>> => result.txs[1] = SetPubkeyHashTx

\* The same token has sent setBorrowerPubkeyHash in MaxTx presentations and
\* sends it once more, at the second it expires.
C40_TokenReplayedAtExpiry ==
  /\ fn = "claim_complete"
  /\ Len(args.earlier) = MaxTx
  /\ \A i \in 1..MaxTx :
       args.earlier[i] # <<>> /\ args.earlier[i][1] = SetPubkeyHashTx
  /\ args.now = args.issued.expires_at
  /\ result.txs # <<>>
  /\ result.txs[1] = SetPubkeyHashTx

====
